---- MODULE Spec2Model ----
(***************************************************************************)
(* Model of ProjectTeal/training: the quad-Bayer forward operator, the     *)
(* CFA channel maps, the losses and the risk guards built on them.         *)
(*                                                                         *)
(* Every operation of the library is a pure function of its arguments, so  *)
(* the state is the call in progress (its name and arguments) and the      *)
(* value or error it produced.  Tensors are modelled as torch stores them: *)
(* a shape and a contiguous row-major buffer.  Element values are exact    *)
(* rationals <<n, d>> (d > 0, lowest terms): floating-point rounding is    *)
(* not modelled.                                                           *)
(***************************************************************************)
EXTENDS Integers, Sequences, FiniteSets, TLC

VARIABLES call, result

vars == <<call, result>>

(***************************************************************************)
(* Bounds of the model.                                                    *)
(***************************************************************************)
MaxBatch == 2
MaxDim == 4
MaxMosaicDim == 5
MaxEvalDim == 2
MaxBaselineBatch == 2
MaxSamples == 3

(***************************************************************************)
(* Exact rational arithmetic.                                              *)
(***************************************************************************)
RECURSIVE GCD(_, _)
GCD(a, b) == IF b = 0 THEN a ELSE GCD(b, a % b)

IAbs(n) == IF n < 0 THEN -n ELSE n

Rat(n, d) ==
    LET s == IF d < 0 THEN -1 ELSE 1
        g == GCD(IAbs(n), IAbs(d))
    IN  <<(s * n) \div g, (s * d) \div g>>

RInt(n) == <<n, 1>>
RZero == <<0, 1>>
ROne == <<1, 1>>
\* Common factors are divided out before multiplying, to keep the integers small.
RAdd(a, b) ==
    LET g == GCD(a[2], b[2])
    IN  Rat(a[1] * (b[2] \div g) + b[1] * (a[2] \div g), (a[2] \div g) * b[2])
RSub(a, b) == RAdd(a, <<-b[1], b[2]>>)
RMul(a, b) ==
    LET g1 == GCD(IAbs(a[1]), b[2])
        g2 == GCD(IAbs(b[1]), a[2])
    IN  Rat((a[1] \div g1) * (b[1] \div g2), (a[2] \div g2) * (b[2] \div g1))
RDiv(a, b) == RMul(a, IF b[1] < 0 THEN <<-b[2], -b[1]>> ELSE <<b[2], b[1]>>)
RAbs(a) == <<IAbs(a[1]), a[2]>>
RLt(a, b) ==
    LET g == GCD(a[2], b[2]) IN a[1] * (b[2] \div g) < b[1] * (a[2] \div g)
RLe(a, b) ==
    LET g == GCD(a[2], b[2]) IN a[1] * (b[2] \div g) <= b[1] * (a[2] \div g)

\* floor of a rational
RFloor(a) == a[1] \div a[2]

RMin(a, b) == IF RLe(a, b) THEN a ELSE b
RMax(a, b) == IF RLe(a, b) THEN b ELSE a

(***************************************************************************)
(* Tensors: [shape, data], data indexed by the row-major offset.           *)
(***************************************************************************)
Front(s) == SubSeq(s, 1, Len(s) - 1)
Last(s) == s[Len(s)]

RECURSIVE Numel(_)
Numel(shape) == IF shape = <<>> THEN 1 ELSE Numel(Front(shape)) * Last(shape)

\* Row-major (contiguous) offset of an index, and its inverse.
Ravel(shape, idx) ==
    CASE Len(shape) = 0 -> 0
      [] Len(shape) = 1 -> idx[1]
      [] Len(shape) = 2 -> idx[1] * shape[2] + idx[2]
      [] Len(shape) = 3 -> (idx[1] * shape[2] + idx[2]) * shape[3] + idx[3]
      [] Len(shape) = 4 ->
            ((idx[1] * shape[2] + idx[2]) * shape[3] + idx[3]) * shape[4] + idx[4]
      [] Len(shape) = 5 ->
            (((idx[1] * shape[2] + idx[2]) * shape[3] + idx[3]) * shape[4] + idx[4])
                * shape[5] + idx[5]
      [] Len(shape) = 6 ->
            ((((idx[1] * shape[2] + idx[2]) * shape[3] + idx[3]) * shape[4] + idx[4])
                * shape[5] + idx[5]) * shape[6] + idx[6]

Unravel(shape, k) ==
    CASE Len(shape) = 0 -> <<>>
      [] Len(shape) = 1 -> <<k>>
      [] Len(shape) = 2 -> <<k \div shape[2], k % shape[2]>>
      [] Len(shape) = 3 ->
            <<k \div (shape[2] * shape[3]), (k \div shape[3]) % shape[2], k % shape[3]>>
      [] Len(shape) = 4 ->
            <<k \div (shape[2] * shape[3] * shape[4]),
              (k \div (shape[3] * shape[4])) % shape[2],
              (k \div shape[4]) % shape[3],
              k % shape[4]>>
      [] Len(shape) = 5 ->
            <<k \div (shape[2] * shape[3] * shape[4] * shape[5]),
              (k \div (shape[3] * shape[4] * shape[5])) % shape[2],
              (k \div (shape[4] * shape[5])) % shape[3],
              (k \div shape[5]) % shape[4],
              k % shape[5]>>

MkTensor(shape, F(_)) ==
    [shape |-> shape,
     data |-> [k \in 0 .. (Numel(shape) - 1) |-> F(Unravel(shape, k))]]

At(t, idx) == t.data[Ravel(t.shape, idx)]
Ndim(t) == Len(t.shape)

\* Tensor.view: the same buffer read under another shape.
View(t, shape) == [shape |-> shape, data |-> t.data]

\* The sum of the elements lo .. hi - 1 of a buffer.
RECURSIVE SumRange(_, _, _)
SumRange(data, lo, hi) ==
    IF hi <= lo THEN RZero
    ELSE IF hi = lo + 1 THEN data[lo]
    ELSE LET mid == (lo + hi) \div 2
             left == SumRange(data, lo, mid)
             right == SumRange(data, mid, hi)
         IN  RAdd(left, right)

\* The tensor t with every element computed: a tensor-valued statement of the
\* source is evaluated before the next one reads it.
Computed(t) == LET d == t.data IN IF d = d THEN [shape |-> t.shape, data |-> d] ELSE t
\* The same for a function or a sequence.
Evaluated(f) == IF f = f THEN f ELSE f

\* F(x) for x = e, with e computed once, every element of it included: the
\* assignment x = e of the source followed by the statements that read x.
Bind(e, F(_)) == CHOOSE r \in {F(x) : x \in {v \in {e} : v = v}} : TRUE

\* Tensor.sum() and Tensor.mean() over every element.
SumAll(t) == SumRange(t.data, 0, Numel(t.shape))
MeanAll(t) == RDiv(SumAll(t), RInt(Numel(t.shape)))

\* An optional argument: None, or Some(value).
None == <<>>
Some(v) == <<v>>
IsNone(o) == o = <<>>

ValueError(msg) == [status |-> "error", kind |-> "ValueError", msg |-> msg]
RuntimeError(msg) == [status |-> "error", kind |-> "RuntimeError", msg |-> msg]
IndexError(msg) == [status |-> "error", kind |-> "IndexError", msg |-> msg]
Ok(v) == [status |-> "ok", value |-> v]

(***************************************************************************)
(* losses.py                                                               *)
(***************************************************************************)
CFAPatterns == {"rggb", "bggr", "grbg", "gbrg"}

\* torch.where(cond, a, b), elementwise.
Where(cond, a, b) == IF cond THEN a ELSE b

\* _channel_index_map: entry (y, x) of the block-granularity map.
ChannelIndexAt(y, x, pattern) ==
    LET by == (y \div 2) % 2
        bx == (x \div 2) % 2
    IN  IF pattern = "rggb" THEN
            LET m0 == Where(bx = 0 /\ by = 0, 0, 2)
                m1 == Where(bx = 1 /\ by = 0, 1, m0)
            IN  Where(bx = 0 /\ by = 1, 1, m1)
        ELSE IF pattern = "bggr" THEN
            LET m0 == Where(bx = 0 /\ by = 0, 2, 1)
                m1 == Where(bx = 1 /\ by = 0, 1, m0)
            IN  Where(bx = 0 /\ by = 1, 1, m1)
        ELSE IF pattern = "grbg" THEN
            LET m0 == Where(bx = 0 /\ by = 0, 1, 1)
                m1 == Where(bx = 1 /\ by = 0, 0, m0)
            IN  Where(bx = 0 /\ by = 1, 2, m1)
        ELSE
            LET m0 == Where(bx = 0 /\ by = 0, 1, 1)
                m1 == Where(bx = 1 /\ by = 0, 2, m0)
            IN  Where(bx = 0 /\ by = 1, 0, m1)

_channel_index_map(height, width, pattern) ==
    MkTensor(<<height, width>>, LAMBDA i : ChannelIndexAt(i[1], i[2], pattern))

\* Mutant: the channel scale is dropped.
ScaleChannels_unscaled(rgb48, channel_scale) == rgb48

\* rgb48 * channel_scale.view(1, 3, 1, 1)
ScaleChannels(rgb48, channel_scale) ==
    LET s == View(channel_scale, <<1, 3, 1, 1>>)
    IN  MkTensor(rgb48.shape,
                 LAMBDA i : RMul(At(rgb48, i), At(s, <<0, i[2], 0, 0>>)))

\* scaled.gather(1, channel_map.expand(batch, -1, -1).unsqueeze(1))
GatherChannel(scaled, channel_map) ==
    LET batch == scaled.shape[1]
        index == MkTensor(<<batch, 1, channel_map.shape[1], channel_map.shape[2]>>,
                          LAMBDA i : At(channel_map, <<i[3], i[4]>>))
    IN  MkTensor(index.shape,
                 LAMBDA i : At(scaled, <<i[1], At(index, i), i[3], i[4]>>))

\* Mutant: view(batch, 1, height // 2, width // 2, 2, 2).mean(dim=(4, 5)), which
\* averages four consecutive elements of a row instead of a 2x2 block.
BinMean2x2_flat(gathered, batch, height, width) ==
    LET v == [shape |-> <<batch, 1, height \div 2, width \div 2, 2, 2>>,
              data |-> gathered.data]
    IN  MkTensor(<<batch, 1, height \div 2, width \div 2>>,
                 LAMBDA i :
                    LET P(a, b) == At(v, <<i[1], i[2], i[3], i[4], a, b>>)
                    IN  RDiv(RAdd(RAdd(P(0, 0), P(0, 1)), RAdd(P(1, 0), P(1, 1))),
                             RInt(4)))

\* gathered.view(batch, 1, height // 2, 2, width // 2, 2).mean(dim=(3, 5))
BinMean2x2(gathered, batch, height, width) ==
    LET v == View(gathered, <<batch, 1, height \div 2, 2, width \div 2, 2>>)
    IN  MkTensor(<<batch, 1, height \div 2, width \div 2>>,
                 LAMBDA i :
                    LET P(a, b) == At(v, <<i[1], i[2], i[3], a, i[4], b>>)
                    IN  RDiv(RAdd(RAdd(P(0, 0), P(0, 1)), RAdd(P(1, 0), P(1, 1))),
                             RInt(4)))

Ones3 == [shape |-> <<3>>, data |-> [k \in 0 .. 2 |-> ROne]]

\* Mutant: the check of channel_scale's shape is missing.
quad_bayer_forward_noscalecheck(rgb48, cfa_pattern, channel_scale) ==
    IF Ndim(rgb48) # 4 \/ rgb48.shape[2] # 3 THEN
        ValueError("rgb48 must have shape (B, 3, H, W)")
    ELSE
        LET batch == rgb48.shape[1]
            height == rgb48.shape[3]
            width == rgb48.shape[4]
            scale == IF IsNone(channel_scale) THEN Ones3 ELSE channel_scale[1]
        IN  IF height % 2 # 0 \/ width % 2 # 0 THEN
                ValueError("Input dimensions must be even for 2x2 binning")
            ELSE
                LET channel_map == _channel_index_map(height, width, cfa_pattern)
                    scaled == ScaleChannels(rgb48, scale)
                    gathered == GatherChannel(scaled, channel_map)
                IN  Ok(BinMean2x2(gathered, batch, height, width))

quad_bayer_forward(rgb48, cfa_pattern, channel_scale) ==
    IF Ndim(rgb48) # 4 \/ rgb48.shape[2] # 3 THEN
        ValueError("rgb48 must have shape (B, 3, H, W)")
    ELSE
        LET batch == rgb48.shape[1]
            height == rgb48.shape[3]
            width == rgb48.shape[4]
            scale == IF IsNone(channel_scale) THEN Ones3 ELSE channel_scale[1]
        IN  IF height % 2 # 0 \/ width % 2 # 0 THEN
                ValueError("Input dimensions must be even for 2x2 binning")
            ELSE IF scale.shape # <<3>> THEN
                ValueError("channel_scale must have shape (3,)")
            ELSE
                LET channel_map == _channel_index_map(height, width, cfa_pattern)
                    scaled == ScaleChannels(rgb48, scale)
                    gathered == GatherChannel(scaled, channel_map)
                IN  Ok(BinMean2x2(gathered, batch, height, width))

\* A tone curve is an elementwise callable; the ones the model passes.
ToneCurve(name, x) ==
    CASE name = "square" -> RMul(x, x)
      [] name = "halve" -> RDiv(x, RInt(2))

Eye3 == MkTensor(<<3, 3>>, LAMBDA i : IF i[1] = i[2] THEN ROne ELSE RZero)

\* torch.einsum("ij,bcxy->bcxy", ccm, rgb): i and j occur in no other operand
\* and not in the output, so they are summed out of ccm and the sum of ccm's
\* nine entries multiplies every element of rgb.
Einsum_ij_bcxy(ccm, rgb) ==
    LET total == SumAll(ccm)
    IN  MkTensor(rgb.shape, LAMBDA i : RMul(total, At(rgb, i)))

_apply_global_render(rgb, ccm, tone_curve) ==
    LET m == IF IsNone(ccm) THEN Eye3 ELSE ccm[1]
    IN  IF m.shape # <<3, 3>> THEN ValueError("ccm must have shape (3, 3)")
        ELSE
            LET rendered == Einsum_ij_bcxy(m, rgb)
            IN  Ok(IF IsNone(tone_curve) THEN rendered
                   ELSE MkTensor(rendered.shape,
                                 LAMBDA i : ToneCurve(tone_curve[1], At(rendered, i))))

\* _spatial_gradients: x[:, :, :, 1:] - x[:, :, :, :-1]
GradX(x) ==
    MkTensor(<<x.shape[1], x.shape[2], x.shape[3], x.shape[4] - 1>>,
             LAMBDA i : RSub(At(x, <<i[1], i[2], i[3], i[4] + 1>>), At(x, i)))

\* _spatial_gradients: x[:, :, 1:, :] - x[:, :, :-1, :]
GradY(x) ==
    MkTensor(<<x.shape[1], x.shape[2], x.shape[3] - 1, x.shape[4]>>,
             LAMBDA i : RSub(At(x, <<i[1], i[2], i[3] + 1, i[4]>>), At(x, i)))

\* (a - b).abs().mean()
MeanAbsDiff(a, b) ==
    MeanAll([shape |-> a.shape,
             data |-> [k \in DOMAIN a.data |-> RAbs(RSub(a.data[k], b.data[k]))]])

gradient_detail_loss(pred_rgb48, reference_rgb48, ccm, tone_curve) ==
    IF pred_rgb48.shape # reference_rgb48.shape THEN
        ValueError("pred_rgb48 and reference_rgb48 must share shape")
    ELSE
        LET pred_render == _apply_global_render(pred_rgb48, ccm, tone_curve)
            ref_render == _apply_global_render(reference_rgb48, ccm, tone_curve)
        IN  IF pred_render.status = "error" THEN pred_render
            ELSE Ok(RAdd(MeanAbsDiff(GradX(pred_render.value), GradX(ref_render.value)),
                         MeanAbsDiff(GradY(pred_render.value), GradY(ref_render.value))))

\* A tensor broadcast to a shape of its rank: a dimension of size 1 is repeated.
Broadcastable(from, to) ==
    /\ Len(from) = Len(to)
    /\ \A n \in 1 .. Len(from) : from[n] = to[n] \/ from[n] = 1
ExpandTo(t, shape) ==
    MkTensor(shape, LAMBDA i : At(t, [n \in 1 .. Len(shape) |-> i[n] % t.shape[n]]))

\* the default of eps: float = 1e-3
CharbonnierEps == Rat(1, 1000)

\* Mutant: eps is left out of the radicand.
charbonnier_loss_noeps(pred, target, eps) ==
    [kind |-> "mean_sqrt",
     radicands |-> [k \in DOMAIN pred.data |->
                      LET e == RSub(pred.data[k], target.data[k]) IN RMul(e, e)]]

\* torch.sqrt((pred - target) ** 2 + eps**2).mean().  A square root is not a
\* rational: the loss is kept as the tensor of its radicands, and stands for
\* the mean of their square roots.
charbonnier_loss(pred, target, eps) ==
    [kind |-> "mean_sqrt",
     radicands |-> [k \in DOMAIN pred.data |->
                      LET e == RSub(pred.data[k], target.data[k])
                      IN  RAdd(RMul(e, e), RMul(eps, eps))]]

\* Mutant: no shape check, the target is broadcast against the mosaic.
anchor_charbonnier_loss_broadcast(pred_rgb48, target_mosaic, cfa_pattern, channel_scale, eps) ==
    LET predicted_mosaic == quad_bayer_forward(pred_rgb48, cfa_pattern, channel_scale)
    IN  IF predicted_mosaic.status = "error" THEN predicted_mosaic
        ELSE IF ~Broadcastable(target_mosaic.shape, predicted_mosaic.value.shape) THEN
            [status |-> "error", kind |-> "RuntimeError", msg |-> "size mismatch"]
        ELSE Ok(charbonnier_loss(predicted_mosaic.value,
                                 ExpandTo(target_mosaic, predicted_mosaic.value.shape),
                                 eps))

anchor_charbonnier_loss(pred_rgb48, target_mosaic, cfa_pattern, channel_scale, eps) ==
    LET predicted_mosaic == quad_bayer_forward(pred_rgb48, cfa_pattern, channel_scale)
    IN  IF predicted_mosaic.status = "error" THEN predicted_mosaic
        ELSE IF target_mosaic.shape # predicted_mosaic.value.shape THEN
            ValueError("target_mosaic must match forward operator output shape")
        ELSE Ok(charbonnier_loss(predicted_mosaic.value, target_mosaic, eps))

\* x.abs().mean()
MeanAbs(x) ==
    MeanAll([shape |-> x.shape, data |-> [k \in DOMAIN x.data |-> RAbs(x.data[k])]])

\* (torch.clamp_min(min_gain - gain_map, 0) + torch.clamp_min(gain_map - max_gain, 0)).mean()
RangePenalty(gain_map, min_gain, max_gain) ==
    MeanAll([shape |-> gain_map.shape,
             data |-> [k \in DOMAIN gain_map.data |->
                          RAdd(RMax(RSub(min_gain, gain_map.data[k]), RZero),
                               RMax(RSub(gain_map.data[k], max_gain), RZero))]])

\* Mutant: smoothness_weight is dropped from the total.
gain_regularization_unweighted(gain_map, smoothness_weight, min_gain, max_gain) ==
    IF Ndim(gain_map) # 4 THEN ValueError("gain_map must have shape (B, C, H, W)")
    ELSE
        LET smoothness == RAdd(MeanAbs(GradX(gain_map)), MeanAbs(GradY(gain_map)))
            range_penalty == RangePenalty(gain_map, min_gain, max_gain)
        IN  Ok([total |-> RAdd(smoothness, range_penalty),
                components |-> [smoothness |-> smoothness, range |-> range_penalty]])

gain_regularization(gain_map, smoothness_weight, min_gain, max_gain) ==
    IF Ndim(gain_map) # 4 THEN ValueError("gain_map must have shape (B, C, H, W)")
    ELSE
        LET smoothness == RAdd(MeanAbs(GradX(gain_map)), MeanAbs(GradY(gain_map)))
            range_penalty == RangePenalty(gain_map, min_gain, max_gain)
        IN  Ok([total |-> RAdd(RMul(smoothness_weight, smoothness), range_penalty),
                components |-> [smoothness |-> smoothness, range |-> range_penalty]])

(***************************************************************************)
(* evaluation.py                                                           *)
(***************************************************************************)
\* _bayer_channel_map: entry (y, x) of the pixel-parity map.
BayerChannelAt(y, x, pattern) ==
    LET yy == y % 2
        xx == x % 2
    IN  IF pattern = "rggb" THEN
            LET m0 == Where(yy = 0 /\ xx = 0, 0, 1)
            IN  Where(yy = 1 /\ xx = 1, 2, m0)
        ELSE IF pattern = "bggr" THEN
            LET m0 == Where(yy = 0 /\ xx = 0, 2, 1)
            IN  Where(yy = 1 /\ xx = 1, 0, m0)
        ELSE IF pattern = "grbg" THEN
            LET m0 == Where(yy = 0 /\ xx = 1, 0, 1)
            IN  Where(yy = 1 /\ xx = 0, 2, m0)
        ELSE
            LET m0 == Where(yy = 0 /\ xx = 1, 2, 1)
            IN  Where(yy = 1 /\ xx = 0, 0, m0)

_bayer_channel_map(height, width, pattern) ==
    MkTensor(<<height, width>>, LAMBDA i : BayerChannelAt(i[1], i[2], pattern))

\* evaluation.py keeps its own copy of _apply_global_render.
evaluation_apply_global_render(rgb, ccm, tone_curve) ==
    LET m == IF IsNone(ccm) THEN Eye3 ELSE ccm[1]
    IN  IF m.shape # <<3, 3>> THEN ValueError("ccm must have shape (3, 3)")
        ELSE
            LET rendered == Einsum_ij_bcxy(m, rgb)
            IN  Ok(IF IsNone(tone_curve) THEN rendered
                   ELSE MkTensor(rendered.shape,
                                 LAMBDA i : ToneCurve(tone_curve[1], At(rendered, i))))

\* _ensure_image_4d (evaluation.py)
_ensure_image_4d(x) ==
    IF Ndim(x) = 3 THEN Ok(View(x, <<1>> \o x.shape))
    ELSE IF Ndim(x) # 4 THEN
        ValueError("expected input with shape (B, C, H, W) or (C, H, W)")
    ELSE Ok(x)

\* F.mse_loss(pred, target): the mean of the squared differences.
mse_loss(pred, target) ==
    MeanAll([shape |-> pred.shape,
             data |-> [k \in DOMAIN pred.data |->
                          LET e == RSub(pred.data[k], target.data[k]) IN RMul(e, e)]])

\* A PSNR value.  10 * log10(r) is kept as its argument r = max_val^2 / mse,
\* a positive rational: log10 is increasing, so the order of two PSNR values
\* is the order of their arguments.  "inf" and "-inf" are the two infinities.
PsnrInf == [kind |-> "inf", ratio |-> RZero]
PsnrNegInf == [kind |-> "-inf", ratio |-> RZero]
PsnrOf(ratio) == [kind |-> "fin", ratio |-> ratio]

\* a > b on PSNR values
PsnrGt(a, b) ==
    CASE a.kind = "inf" -> b.kind # "inf"
      [] a.kind = "-inf" -> FALSE
      [] a.kind = "fin" -> b.kind = "-inf" \/ (b.kind = "fin" /\ RLt(b.ratio, a.ratio))

RECURSIVE Pow10(_)
Pow10(n) == IF n = 0 THEN 1 ELSE 10 * Pow10(n - 1)

\* a >= db for a threshold of db decibels, db a multiple of 5:
\* 10 * log10(n / d) >= db  iff  (n / d)^2 >= 10^(db / 5).
PsnrGeDb(a, db) ==
    CASE a.kind = "inf" -> TRUE
      [] a.kind = "-inf" -> FALSE
      [] a.kind = "fin" ->
            a.ratio[1] * a.ratio[1] >= Pow10(db \div 5) * a.ratio[2] * a.ratio[2]

\* Mutant: a zero MSE is reported as a domain error.
psnr_domain_error(pred, target, max_val) ==
    LET p == _ensure_image_4d(pred)
        t == _ensure_image_4d(target)
    IN  IF p.status = "error" THEN p
        ELSE IF t.status = "error" THEN t
        ELSE IF p.value.shape # t.value.shape THEN
            ValueError("pred and target must share shape")
        ELSE
            LET mse == mse_loss(p.value, t.value)
            IN  IF mse = RZero THEN ValueError("math domain error")
                ELSE Ok(PsnrOf(RDiv(RMul(max_val, max_val), mse)))

psnr(pred, target, max_val) ==
    LET p == _ensure_image_4d(pred)
        t == _ensure_image_4d(target)
    IN  IF p.status = "error" THEN p
        ELSE IF t.status = "error" THEN t
        ELSE IF p.value.shape # t.value.shape THEN
            ValueError("pred and target must share shape")
        ELSE
            LET mse == mse_loss(p.value, t.value)
            IN  IF mse = RZero THEN Ok(PsnrInf)
                ELSE Ok(PsnrOf(RDiv(RMul(max_val, max_val), mse)))

\* the defaults of num_bins: int = 64 and value_range = (-0.02, 0.02)
DefaultNumBins == 64
DefaultValueRange == <<Rat(-1, 50), Rat(1, 50)>>

\* The smallest and the largest of a non-empty sequence of values.
Elements(values) == {values[j] : j \in 1 .. Len(values)}
MinOf(values) == CHOOSE v \in Elements(values) : \A u \in Elements(values) : RLe(v, u)
MaxOf(values) == CHOOSE v \in Elements(values) : \A u \in Elements(values) : RLe(u, v)

\* The outer edges torch.histc bins between: min and max when they differ;
\* the extremes of the data when min = max; one below and one above when
\* these are equal too.
HistcEdges(values, min, max) ==
    LET data == IF min = max /\ Len(values) > 0
                THEN <<MinOf(values), MaxOf(values)>> ELSE <<min, max>>
    IN  IF data[1] = data[2] THEN <<RSub(data[1], ROne), RAdd(data[2], ROne)>> ELSE data

\* The bin of a value between the edges: bins of equal width, the upper edge
\* in the last one.
HistcBin(v, bins, edges) ==
    LET pos == RFloor(RMul(RDiv(RSub(v, edges[1]), RSub(edges[2], edges[1])), RInt(bins)))
    IN  IF pos = bins THEN bins - 1 ELSE pos

\* torch.histc(values, bins=bins, min=min, max=max) of a sequence of values:
\* values outside the edges are ignored.
Histc(values, bins, min, max) ==
    IF RLt(max, min) THEN RuntimeError("max must be larger than min")
    ELSE IF bins <= 0 THEN RuntimeError("bins must be > 0")
    ELSE
        LET edges == HistcEdges(values, min, max)
            bin == Evaluated([j \in 1 .. Len(values) |->
                                 IF RLe(edges[1], values[j]) /\ RLe(values[j], edges[2])
                                 THEN HistcBin(values[j], bins, edges) ELSE -1])
        IN  Ok([shape |-> <<bins>>,
                data |-> [k \in 0 .. (bins - 1) |->
                             Cardinality({j \in 1 .. Len(values) : bin[j] = k})]])

\* residual[channel_map == idx] for a (B, H, W) residual and the (H, W) map:
\* a boolean mask indexes the leading dimensions of the tensor, here B and
\* H, and selects the rows residual[i, j, :] with channel_map[i, j] = idx, in
\* row-major order.
MaskedValues(residual, channel_map, idx) ==
    LET width == residual.shape[3]
        rows == channel_map.shape[1] * channel_map.shape[2]
        picked == {k \in 0 .. (rows * width - 1) : channel_map.data[k \div width] = idx}
    IN  Evaluated([n \in 1 .. Cardinality(picked) |->
                      residual.data[CHOOSE k \in picked :
                                       Cardinality({j \in picked : j <= k}) = n]])

\* The mask has the shape (H, W) of the map and the residual the shape
\* (B, H, W): indexing raises IndexError unless B = H and H = W.
per_cfa_error_histogram(residual_mosaic, cfa_pattern, num_bins, value_range) ==
    LET r == _ensure_image_4d(residual_mosaic)
    IN  IF r.status = "error" THEN r
        ELSE IF r.value.shape[2] # 1 THEN
            ValueError("residual_mosaic must have shape (B, 1, H, W)")
        ELSE IF r.value.shape[3] % 2 # 0 \/ r.value.shape[4] % 2 # 0 THEN
            ValueError("mosaic height and width must be even")
        ELSE
            LET height == r.value.shape[3]
                width == r.value.shape[4]
                channel_map == Computed(_bayer_channel_map(height, width, cfa_pattern))
                residual == View(r.value, <<r.value.shape[1], height, width>>)
                hist(idx) ==
                    LET values == MaskedValues(residual, channel_map, idx)
                    IN  IF Len(values) = 0
                        THEN Ok([shape |-> <<num_bins>>,
                                 data |-> [k \in 0 .. (num_bins - 1) |-> 0]])
                        ELSE Histc(values, num_bins, value_range[1], value_range[2])
                r_hist == hist(0)
                g_hist == hist(1)
                b_hist == hist(2)
            IN  IF residual.shape[1] # height \/ residual.shape[2] # width THEN
                    IndexError("The shape of the mask does not match the shape of the indexed tensor")
                ELSE IF r_hist.status = "error" THEN r_hist
                ELSE IF g_hist.status = "error" THEN g_hist
                ELSE IF b_hist.status = "error" THEN b_hist
                ELSE Ok([r |-> Computed(r_hist.value), g |-> Computed(g_hist.value),
                         b |-> Computed(b_hist.value)])

(***************************************************************************)
(* risk.py                                                                 *)
(***************************************************************************)
\* _ensure_image_4d (risk.py)
risk_ensure_image_4d(x) ==
    IF Ndim(x) = 3 THEN Ok(View(x, <<1>> \o x.shape))
    ELSE IF Ndim(x) # 4 THEN
        ValueError("expected input with shape (B, C, H, W) or (C, H, W)")
    ELSE Ok(x)

\* torch.roll(x, shifts=(dy, dx), dims=(-2, -1)) of a 4-D tensor: the element
\* at (y, x) moves to ((y + dy) mod H, (x + dx) mod W).
Roll(x, dy, dx) ==
    MkTensor(x.shape,
             LAMBDA i : At(x, <<i[1], i[2], (i[3] - dy) % x.shape[3],
                                (i[4] - dx) % x.shape[4]>>))

\* Mutant: range(-max_shift, max_shift), which leaves out +max_shift.
ShiftRange_open(max_shift) == [k \in 1 .. (2 * max_shift) |-> k - max_shift - 1]

\* range(-max_shift, max_shift + 1), in order
ShiftRange(max_shift) == [k \in 1 .. (2 * max_shift + 1) |-> k - max_shift - 1]

\* The shifts in the order the two nested loops visit them: dy outer, dx inner.
ScanOrder(max_shift) ==
    LET r == ShiftRange(max_shift)
    IN  [k \in 1 .. (Len(r) * Len(r)) |->
            <<r[((k - 1) \div Len(r)) + 1], r[((k - 1) % Len(r)) + 1]>>]

\* float(psnr(torch.roll(simulated, shifts=(dy, dx), dims=(-2, -1)), anchor)) for
\* each shift of the scan.
ShiftScores(order, anchor, simulated) ==
    [k \in 1 .. Len(order) |->
        psnr(Roll(simulated, order[k][1], order[k][2]), anchor, ROne).value]

\* The best score and shift after the first k iterations of the loop of
\* detect_misalignment.
RECURSIVE SearchUpTo(_, _, _)
SearchUpTo(k, order, scores) ==
    IF k = 0 THEN [best_psnr |-> PsnrNegInf, best_shift |-> <<0, 0>>]
    ELSE
        LET best == SearchUpTo(k - 1, order, scores)
        IN  IF PsnrGt(scores[k], best.best_psnr)
            THEN [best_psnr |-> scores[k], best_shift |-> order[k]]
            ELSE best

DefaultMaxShift == 2
DefaultPsnrThreshold == 35

detect_misalignment(anchor_mosaic, simulated_mosaic, max_shift, psnr_threshold) ==
    LET a == risk_ensure_image_4d(anchor_mosaic)
        s == risk_ensure_image_4d(simulated_mosaic)
    IN  IF a.status = "error" THEN a
        ELSE IF s.status = "error" THEN s
        ELSE IF a.value.shape # s.value.shape THEN
            ValueError("anchor_mosaic and simulated_mosaic must share shape")
        ELSE
            LET order == ScanOrder(max_shift)
                scores == ShiftScores(order, a.value, s.value)
                best == SearchUpTo(Len(scores), order, scores)
                reference_psnr == psnr(s.value, a.value, ROne).value
            IN  Ok([best_shift |-> best.best_shift,
                    best_psnr |-> best.best_psnr,
                    reference_psnr |-> reference_psnr,
                    is_aligned |-> best.best_shift = <<0, 0>>
                                     /\ PsnrGeDb(reference_psnr, psnr_threshold)])

\* risk.py keeps its own copy of _bayer_channel_map.
risk_BayerChannelAt(y, x, pattern) ==
    LET yy == y % 2
        xx == x % 2
    IN  IF pattern = "rggb" THEN
            LET m0 == Where(yy = 0 /\ xx = 0, 0, 1)
            IN  Where(yy = 1 /\ xx = 1, 2, m0)
        ELSE IF pattern = "bggr" THEN
            LET m0 == Where(yy = 0 /\ xx = 0, 2, 1)
            IN  Where(yy = 1 /\ xx = 1, 0, m0)
        ELSE IF pattern = "grbg" THEN
            LET m0 == Where(yy = 0 /\ xx = 1, 0, 1)
            IN  Where(yy = 1 /\ xx = 0, 2, m0)
        ELSE
            LET m0 == Where(yy = 0 /\ xx = 1, 2, 1)
            IN  Where(yy = 1 /\ xx = 0, 0, m0)

risk_bayer_channel_map(height, width, pattern) ==
    MkTensor(<<height, width>>, LAMBDA i : risk_BayerChannelAt(i[1], i[2], pattern))

\* scaled[:, c, y0::2, x0::2]
StridedPlane(scaled, c, y0, x0) ==
    MkTensor(<<scaled.shape[1], (scaled.shape[3] - y0 + 1) \div 2,
               (scaled.shape[4] - x0 + 1) \div 2>>,
             LAMBDA i : At(scaled, <<i[1], c, 2 * i[2] + y0, 2 * i[3] + x0>>))

\* torch.stack([r, g1, g2, b], dim=0).mean(dim=0).unsqueeze(1)
StackMean4(r, g1, g2, b) ==
    MkTensor(<<r.shape[1], 1, r.shape[2], r.shape[3]>>,
             LAMBDA i :
                LET k == <<i[1], i[3], i[4]>>
                IN  RDiv(RAdd(RAdd(At(r, k), At(g1, k)), RAdd(At(g2, k), At(b, k))),
                         RInt(4)))

\* (a - b).abs().max()
MaxAbsDiff(a, b) ==
    LET d == [k \in DOMAIN a.data |-> RAbs(RSub(a.data[k], b.data[k]))]
    IN  CHOOSE m \in {d[k] : k \in DOMAIN d} : \A k \in DOMAIN d : RLe(d[k], m)

quad_binner_residual(rgb48, cfa_pattern, channel_scale) ==
    IF Ndim(rgb48) # 4 \/ rgb48.shape[2] # 3 THEN
        ValueError("rgb48 must have shape (B, 3, H, W)")
    ELSE
        LET mosaiced == quad_bayer_forward(rgb48, cfa_pattern, channel_scale)
            scale == IF IsNone(channel_scale) THEN Ones3 ELSE channel_scale[1]
        IN  IF mosaiced.status = "error" THEN mosaiced
            ELSE IF scale.shape # <<3>> THEN
                ValueError("channel_scale must have shape (3,)")
            ELSE
                LET scaled == ScaleChannels(rgb48, scale)
                    r == StridedPlane(scaled, 0, 0, 0)
                    g1 == StridedPlane(scaled, 1, 0, 1)
                    g2 == StridedPlane(scaled, 1, 1, 0)
                    b == StridedPlane(scaled, 2, 1, 1)
                    manual == StackMean4(r, g1, g2, b)
                IN  Ok(MaxAbsDiff(mosaiced.value, manual))

\* the default of eps: float = 1e-6 of estimate_white_balance_neutral
WhiteBalanceEps == Rat(1, 1000000)

\* The mean of the pixels of role idx in batch element b: the sum of the
\* pixels whose map entry is idx over their number, the number at least 1.
ChannelMean(mosaic, channel_map, b, idx) ==
    LET height == mosaic.shape[3]
        width == mosaic.shape[4]
        channel_vals ==
            [k \in 0 .. (height * width - 1) |->
                IF channel_map.data[k] = idx
                THEN At(mosaic, <<b, 0, k \div width, k % width>>)
                ELSE RZero]
        counts == Cardinality({k \in 0 .. (height * width - 1) : channel_map.data[k] = idx})
    IN  RDiv(SumRange(channel_vals, 0, height * width),
             RInt(IF counts < 1 THEN 1 ELSE counts))

\* Mutant: the reciprocals are returned without the division by the green one.
estimate_white_balance_neutral_raw(mosaic, cfa_pattern, eps) ==
    LET m == risk_ensure_image_4d(mosaic)
    IN  IF m.status = "error" THEN m
        ELSE IF m.value.shape[2] # 1 THEN ValueError("mosaic must have shape (B, 1, H, W)")
        ELSE IF m.value.shape[3] % 2 # 0 \/ m.value.shape[4] % 2 # 0 THEN
            ValueError("mosaic height and width must be even")
        ELSE
            LET channel_map ==
                    Computed(risk_bayer_channel_map(m.value.shape[3], m.value.shape[4],
                                                    cfa_pattern))
            IN  Ok(MkTensor(<<m.value.shape[1], 3>>,
                            LAMBDA i : RDiv(ROne,
                                            RAdd(ChannelMean(m.value, channel_map,
                                                             i[1], i[2]), eps))))

\* The result has shape (B, 3).
estimate_white_balance_neutral(mosaic, cfa_pattern, eps) ==
    LET m == risk_ensure_image_4d(mosaic)
    IN  IF m.status = "error" THEN m
        ELSE IF m.value.shape[2] # 1 THEN ValueError("mosaic must have shape (B, 1, H, W)")
        ELSE IF m.value.shape[3] % 2 # 0 \/ m.value.shape[4] % 2 # 0 THEN
            ValueError("mosaic height and width must be even")
        ELSE
            LET channel_map ==
                    Computed(risk_bayer_channel_map(m.value.shape[3], m.value.shape[4],
                                                    cfa_pattern))
                neutral ==
                    Computed(MkTensor(<<m.value.shape[1], 3>>,
                                      LAMBDA i : RDiv(ROne,
                                                      RAdd(ChannelMean(m.value, channel_map,
                                                                       i[1], i[2]), eps))))
            IN  Ok(MkTensor(neutral.shape,
                            LAMBDA i : RDiv(At(neutral, i), At(neutral, <<i[1], 1>>))))

\* the default of tolerance: float = 0.05
DefaultTolerance == Rat(1, 20)

\* target / target[:, 1:2] of a (1, 3) tensor
GreenNormalised(target) ==
    [shape |-> target.shape,
     data |-> [k \in DOMAIN target.data |-> RDiv(target.data[k], target.data[1])]]

\* Mutant: the target is compared as given, without the green normalisation.
white_balance_consistency_as_given(mosaic, target_neutral, cfa_pattern, tolerance) ==
    LET estimated == estimate_white_balance_neutral(mosaic, cfa_pattern, WhiteBalanceEps)
    IN  IF estimated.status = "error" THEN estimated
        ELSE IF Numel(target_neutral.shape) # 3 THEN
            RuntimeError("shape '[1, 3]' is invalid for input")
        ELSE
            LET target == View(target_neutral, <<1, 3>>)
                deviation ==
                    Computed(MkTensor(estimated.value.shape,
                                      LAMBDA i : RAbs(RSub(At(estimated.value, i),
                                                           At(target, <<0, i[2]>>)))))
            IN  Ok([within_tolerance |->
                        \A k \in DOMAIN deviation.data : RLe(deviation.data[k], tolerance),
                    estimated |-> estimated.value, deviation |-> deviation])

\* The estimate is made with the default eps; target_neutral.view(1, 3) needs
\* three elements.
white_balance_consistency(mosaic, target_neutral, cfa_pattern, tolerance) ==
    LET estimated == estimate_white_balance_neutral(mosaic, cfa_pattern, WhiteBalanceEps)
    IN  IF estimated.status = "error" THEN estimated
        ELSE IF Numel(target_neutral.shape) # 3 THEN
            RuntimeError("shape '[1, 3]' is invalid for input")
        ELSE
            LET target == GreenNormalised(View(target_neutral, <<1, 3>>))
                deviation ==
                    Computed(MkTensor(estimated.value.shape,
                                      LAMBDA i : RAbs(RSub(At(estimated.value, i),
                                                           At(target, <<0, i[2]>>)))))
            IN  Ok([within_tolerance |->
                        \A k \in DOMAIN deviation.data : RLe(deviation.data[k], tolerance),
                    estimated |-> estimated.value, deviation |-> deviation])

(***************************************************************************)
(* baselines.py                                                            *)
(***************************************************************************)
\* the default of eps: float = 1e-6
DefaultEps == Rat(1, 1000000)


\* x.clamp(min=lo, max=hi) of one element: min(max(x, lo), hi)
Clamp(x, lo, hi) == RMin(RMax(x, lo), hi)

\* torch.clamp(x, min=0.0) of a tensor
ClampMin0(x) == [shape |-> x.shape, data |-> [k \in DOMAIN x.data |-> RMax(x.data[k], RZero)]]

\* None when the shapes pass, the ValueError otherwise.
_validate_shapes(proraw_rgb48, anchor_mosaic) ==
    IF Ndim(proraw_rgb48) # 4 \/ proraw_rgb48.shape[2] # 3 THEN
        ValueError("proraw_rgb48 must have shape (B, 3, H, W)")
    ELSE IF Ndim(anchor_mosaic) # 4 \/ anchor_mosaic.shape[2] # 1 THEN
        ValueError("anchor_mosaic must have shape (B, 1, H/2, W/2)")
    ELSE IF proraw_rgb48.shape[3] % 2 # 0 \/ proraw_rgb48.shape[4] % 2 # 0 THEN
        ValueError("proraw_rgb48 height and width must be even for binning")
    ELSE IF anchor_mosaic.shape[1] # proraw_rgb48.shape[1] THEN
        ValueError("batch size mismatch between proraw_rgb48 and anchor_mosaic")
    ELSE Ok(None)

\* anchor_mosaic / (simulated_anchor + eps), elementwise
Ratios(anchor_mosaic, simulated_anchor, eps) ==
    [shape |-> anchor_mosaic.shape,
     data |-> [k \in DOMAIN anchor_mosaic.data |->
                  RDiv(anchor_mosaic.data[k], RAdd(simulated_anchor.data[k], eps))]]

\* The i-th smallest (i from 0) of the n values row[0 .. n-1].
SortedAt(row, n, i) ==
    CHOOSE v \in {row[j] : j \in 0 .. (n - 1)} :
        /\ Cardinality({j \in 0 .. (n - 1) : RLt(row[j], v)}) <= i
        /\ i < Cardinality({j \in 0 .. (n - 1) : RLe(row[j], v)})

\* torch.quantile(row, q) with the default linear interpolation: the sorted
\* values are read at position q * (n - 1), between its two neighbours.
Quantile(row, n, q) ==
    LET pos == RMul(q, RInt(n - 1))
        lo == RFloor(pos)
        hi == IF RInt(lo) = pos THEN lo ELSE lo + 1
        frac == RSub(pos, RInt(lo))
        vlo == SortedAt(row, n, lo)
        vhi == SortedAt(row, n, hi)
    IN  RAdd(vlo, RMul(frac, RSub(vhi, vlo)))

\* Mutant: the quantile is returned without the clamp.
BatchGains_unclamped(ratios, gain_percentile, min_gain, max_gain) ==
    LET batch == ratios.shape[1]
        n == Numel(ratios.shape) \div batch
    IN  [shape |-> <<batch>>,
         data |-> [b \in 0 .. (batch - 1) |->
                      Quantile([j \in 0 .. (n - 1) |-> ratios.data[b * n + j]],
                               n, gain_percentile)]]

\* torch.quantile(ratios.view(B, -1), gain_percentile, dim=1).clamp(min, max):
\* one gain per batch element, a tensor of shape (B,).
BatchGains(ratios, gain_percentile, min_gain, max_gain) ==
    LET batch == ratios.shape[1]
        n == Numel(ratios.shape) \div batch
    IN  [shape |-> <<batch>>,
         data |-> [b \in 0 .. (batch - 1) |->
                      Clamp(Quantile([j \in 0 .. (n - 1) |-> ratios.data[b * n + j]],
                                     n, gain_percentile),
                            min_gain, max_gain)]]

\* linear_rgb * gain.view(-1, 1, 1, 1)
ScaleBatches(linear_rgb, gain) ==
    MkTensor(linear_rgb.shape, LAMBDA i : RMul(At(linear_rgb, i), gain.data[i[1]]))

\* inverse_tone_curve(proraw_rgb48), or proraw_rgb48 when there is none
Linearize(proraw_rgb48, inverse_tone_curve) ==
    IF IsNone(inverse_tone_curve) THEN proraw_rgb48
    ELSE [shape |-> proraw_rgb48.shape,
          data |-> [k \in DOMAIN proraw_rgb48.data |->
                       ToneCurve(inverse_tone_curve[1], proraw_rgb48.data[k])]]

\* Mutant: the forward-projected shape is not compared with the anchor's, and
\* the division broadcasts the anchor where it can.
global_del_tm_baseline_broadcast(proraw_rgb48, anchor_mosaic, cfa_pattern, inverse_tone_curve, channel_scale, gain_percentile, min_gain, max_gain, eps) ==
    LET checked == _validate_shapes(proraw_rgb48, anchor_mosaic)
    IN  IF checked.status = "error" THEN checked
        ELSE
            LET linear_rgb == Computed(Linearize(proraw_rgb48, inverse_tone_curve))
                simulated_anchor == quad_bayer_forward(linear_rgb, cfa_pattern, channel_scale)
            IN  IF simulated_anchor.status = "error" THEN simulated_anchor
                ELSE IF ~Broadcastable(anchor_mosaic.shape, simulated_anchor.value.shape)
                THEN RuntimeError("The size of tensor a must match the size of tensor b")
                ELSE
                    LET ratios ==
                            Computed(Ratios(ExpandTo(anchor_mosaic,
                                                     simulated_anchor.value.shape),
                                            simulated_anchor.value, eps))
                        gain == BatchGains(ratios, gain_percentile, min_gain, max_gain)
                        corrected_rgb == Computed(ClampMin0(ScaleBatches(linear_rgb, gain)))
                        baseline_mosaic ==
                            quad_bayer_forward(corrected_rgb, cfa_pattern, channel_scale)
                    IN  Ok([rgb48 |-> corrected_rgb, mosaic |-> baseline_mosaic.value,
                            gain |-> gain])

global_del_tm_baseline(proraw_rgb48, anchor_mosaic, cfa_pattern, inverse_tone_curve, channel_scale, gain_percentile, min_gain, max_gain, eps) ==
    LET checked == _validate_shapes(proraw_rgb48, anchor_mosaic)
    IN  IF checked.status = "error" THEN checked
        ELSE
            LET linear_rgb == Computed(Linearize(proraw_rgb48, inverse_tone_curve))
                simulated_anchor == quad_bayer_forward(linear_rgb, cfa_pattern, channel_scale)
            IN  IF simulated_anchor.status = "error" THEN simulated_anchor
                ELSE IF simulated_anchor.value.shape # anchor_mosaic.shape THEN
                    ValueError("anchor_mosaic must match forward-projected shape")
                ELSE
                    LET ratios == Computed(Ratios(anchor_mosaic, simulated_anchor.value, eps))
                        gain == BatchGains(ratios, gain_percentile, min_gain, max_gain)
                        corrected_rgb == Computed(ClampMin0(ScaleBatches(linear_rgb, gain)))
                        baseline_mosaic ==
                            quad_bayer_forward(corrected_rgb, cfa_pattern, channel_scale)
                    IN  Ok([rgb48 |-> corrected_rgb, mosaic |-> baseline_mosaic.value,
                            gain |-> gain])

\* The source coordinate of output index dst for align_corners=False:
\* scale * (dst + 0.5) - 0.5 with scale = in_size / out_size, and 0 when that
\* is negative.
SourceIndex(dst, in_size, out_size) ==
    RMax(RZero,
         RSub(RMul(Rat(in_size, out_size), RAdd(RInt(dst), Rat(1, 2))), Rat(1, 2)))

\* F.interpolate(x, size=(height, width), mode="bilinear", align_corners=False)
\* of a (B, C, h, w) tensor.
InterpolateBilinear(x, height, width) ==
    MkTensor(<<x.shape[1], x.shape[2], height, width>>,
             LAMBDA i :
                LET sy == SourceIndex(i[3], x.shape[3], height)
                    sx == SourceIndex(i[4], x.shape[4], width)
                    y0 == RFloor(sy)
                    x0 == RFloor(sx)
                    y1 == IF y0 < x.shape[3] - 1 THEN y0 + 1 ELSE y0
                    x1 == IF x0 < x.shape[4] - 1 THEN x0 + 1 ELSE x0
                    ly == RSub(sy, RInt(y0))
                    lx == RSub(sx, RInt(x0))
                    top == RAdd(RMul(RSub(ROne, lx), At(x, <<i[1], i[2], y0, x0>>)),
                                RMul(lx, At(x, <<i[1], i[2], y0, x1>>)))
                    bottom == RAdd(RMul(RSub(ROne, lx), At(x, <<i[1], i[2], y1, x0>>)),
                                   RMul(lx, At(x, <<i[1], i[2], y1, x1>>)))
                IN  RAdd(RMul(RSub(ROne, ly), top), RMul(ly, bottom)))

\* F.avg_pool2d(x, kernel_size=k, stride=1, padding=padding) with its default
\* count_include_pad=True: the window sum over the zero-padded image divided
\* by k * k at every pixel; the output is H + 2 * padding - k + 1 high.
AvgPool2d(x, k, padding) ==
    MkTensor(<<x.shape[1], x.shape[2],
               x.shape[3] + 2 * padding - k + 1, x.shape[4] + 2 * padding - k + 1>>,
             LAMBDA i :
                LET window ==
                        [n \in 0 .. (k * k - 1) |->
                            LET y == i[3] - padding + (n \div k)
                                xx == i[4] - padding + (n % k)
                            IN  IF y \in 0 .. (x.shape[3] - 1) /\ xx \in 0 .. (x.shape[4] - 1)
                                THEN At(x, <<i[1], i[2], y, xx>>)
                                ELSE RZero]
                IN  RDiv(SumRange(window, 0, k * k), RInt(k * k)))

\* gain_field.repeat(1, 3, 1, 1) of a one-channel tensor
Repeat3(x) ==
    MkTensor(<<x.shape[1], 3 * x.shape[2], x.shape[3], x.shape[4]>>,
             LAMBDA i : At(x, <<i[1], i[2] % x.shape[2], i[3], i[4]>>))

\* gain_anchor.clamp(min=min_gain, max=max_gain)
ClampTensor(x, lo, hi) ==
    [shape |-> x.shape, data |-> [k \in DOMAIN x.data |-> Clamp(x.data[k], lo, hi)]]

\* a * b for tensors of one shape
MulTensors(a, b) ==
    [shape |-> a.shape, data |-> [k \in DOMAIN a.data |-> RMul(a.data[k], b.data[k])]]

\* upsample_mode keeps its default "bilinear".
gain_field_baseline(proraw_rgb48, anchor_mosaic, cfa_pattern, channel_scale, smoothing_kernel, min_gain, max_gain, eps) ==
    LET checked == _validate_shapes(proraw_rgb48, anchor_mosaic)
    IN  IF checked.status = "error" THEN checked
        ELSE
            LET simulated_anchor == quad_bayer_forward(proraw_rgb48, cfa_pattern, channel_scale)
            IN  IF simulated_anchor.status = "error" THEN simulated_anchor
                ELSE IF simulated_anchor.value.shape # anchor_mosaic.shape THEN
                    ValueError("anchor_mosaic must match forward-projected shape")
                ELSE
                    LET gain_anchor ==
                            Computed(ClampTensor(Ratios(anchor_mosaic, simulated_anchor.value,
                                                        eps),
                                                 min_gain, max_gain))
                        upsampled ==
                            Computed(InterpolateBilinear(gain_anchor, proraw_rgb48.shape[3],
                                                         proraw_rgb48.shape[4]))
                        smoothed ==
                            IF smoothing_kernel > 1
                            THEN Computed(AvgPool2d(upsampled, smoothing_kernel,
                                                    smoothing_kernel \div 2))
                            ELSE upsampled
                        gain_field == Repeat3(smoothed)
                    IN  IF gain_field.shape # proraw_rgb48.shape THEN
                            RuntimeError("The size of tensor a must match the size of tensor b")
                        ELSE
                            LET corrected_rgb ==
                                    Computed(ClampMin0(MulTensors(proraw_rgb48, gain_field)))
                                baseline_mosaic ==
                                    quad_bayer_forward(corrected_rgb, cfa_pattern, channel_scale)
                            IN  Ok([rgb48 |-> corrected_rgb,
                                    mosaic |-> baseline_mosaic.value,
                                    gain |-> gain_field])

(***************************************************************************)
(* models/gain_field_io.py                                                 *)
(***************************************************************************)
\* Two shapes of one rank broadcast when each pair of sizes is equal or has a 1.
BroadcastCompatible(a, b) ==
    /\ Len(a) = Len(b)
    /\ \A n \in 1 .. Len(a) : a[n] = b[n] \/ a[n] = 1 \/ b[n] = 1

BroadcastShape(a, b) == [n \in 1 .. Len(a) |-> IF a[n] = 1 THEN b[n] ELSE a[n]]

\* upsample_mode keeps its default "bilinear".  pro_raw48 * gain_up and the
\* sum with detail broadcast as torch does: sizes that differ are accepted
\* when one of them is 1.
compose_linear_prediction(pro_raw48, gain, detail) ==
    IF Ndim(pro_raw48) # 4 \/ Ndim(detail) # 4 \/ Ndim(gain) # 4 THEN
        ValueError("All tensors must be 4D")
    ELSE IF pro_raw48.shape # detail.shape THEN
        ValueError("pro_raw48 and detail must share shape (B, 3, H, W)")
    ELSE IF pro_raw48.shape[2] # 3 \/ gain.shape[2] # 3 THEN
        ValueError("pro_raw48, gain, and detail must have 3 channels")
    ELSE
        LET gain_up ==
                Computed(InterpolateBilinear(gain, pro_raw48.shape[3], pro_raw48.shape[4]))
        IN  IF ~BroadcastCompatible(pro_raw48.shape, gain_up.shape) THEN
                RuntimeError("The size of tensor a must match the size of tensor b")
            ELSE
                LET shape == BroadcastShape(pro_raw48.shape, gain_up.shape)
                    combined ==
                        MkTensor(shape,
                                 LAMBDA i :
                                    RAdd(RMul(At(ExpandTo(pro_raw48, shape), i),
                                              At(ExpandTo(gain_up, shape), i)),
                                         At(ExpandTo(detail, shape), i)))
                IN  Ok(ClampMin0(combined))

(***************************************************************************)
(* analysis.py                                                             *)
(***************************************************************************)
\* _apply_render (analysis.py): the einsum needs a 4D rgb; the render is
\* clamped at 0.
_apply_render(rgb, ccm, tone_curve) ==
    LET m == IF IsNone(ccm) THEN Eye3 ELSE ccm[1]
    IN  IF m.shape # <<3, 3>> THEN ValueError("ccm must have shape (3, 3)")
        ELSE IF Ndim(rgb) # 4 THEN
            RuntimeError("einsum(): the number of subscripts does not match the dimensions")
        ELSE
            LET rendered == Computed(Einsum_ij_bcxy(m, rgb))
            IN  Ok(ClampMin0(IF IsNone(tone_curve) THEN rendered
                             ELSE MkTensor(rendered.shape,
                                           LAMBDA i : ToneCurve(tone_curve[1],
                                                                At(rendered, i)))))

\* The smallest and the largest value of plane (b, c) of a (B, C, H, W) tensor.
PlaneValues(x, b, c) ==
    {At(x, <<b, c, y, w>>) : y \in 0 .. (x.shape[3] - 1), w \in 0 .. (x.shape[4] - 1)}
PlaneMin(x, b, c) == CHOOSE v \in PlaneValues(x, b, c) : \A u \in PlaneValues(x, b, c) : RLe(v, u)
PlaneMax(x, b, c) == CHOOSE v \in PlaneValues(x, b, c) : \A u \in PlaneValues(x, b, c) : RLe(u, v)

\* A one-channel map is repeated to three channels; every plane is mapped to
\* (x - min) / max(max - min, 1e-6).
_normalize_gain_map(gain_map) ==
    IF Ndim(gain_map) # 4 THEN ValueError("gain_map must have shape (B, C, H, W)")
    ELSE
        LET gain_display == IF gain_map.shape[2] = 1 THEN Computed(Repeat3(gain_map))
                            ELSE gain_map
        IN  Ok(MkTensor(gain_display.shape,
                        LAMBDA i :
                           LET min_vals == PlaneMin(gain_display, i[1], i[2])
                               max_vals == PlaneMax(gain_display, i[1], i[2])
                               denom == RMax(RSub(max_vals, min_vals), Rat(1, 1000000))
                           IN  RDiv(RSub(At(gain_display, i), min_vals), denom)))

\* The renders in the order _render_stack makes them; the first error is
\* the one raised.
RenderJobs(candidate_rgb48, baseline_rgb48, ccm, tone_curve, proraw_rgb48, anchor_render, gain_map) ==
    <<[name |-> "candidate", render |-> _apply_render(candidate_rgb48, ccm, tone_curve)],
      [name |-> "baseline", render |-> _apply_render(baseline_rgb48, ccm, tone_curve)]>>
    \o (IF IsNone(proraw_rgb48) THEN <<>>
        ELSE <<[name |-> "input", render |-> _apply_render(proraw_rgb48[1], ccm, tone_curve)]>>)
    \o (IF IsNone(anchor_render) THEN <<>>
        ELSE <<[name |-> "anchor",
                render |-> _apply_render(anchor_render[1], ccm, tone_curve)]>>)
    \o (IF IsNone(gain_map) THEN <<>>
        ELSE <<[name |-> "gain", render |-> _normalize_gain_map(gain_map[1])]>>)

_render_stack(candidate_rgb48, baseline_rgb48, ccm, tone_curve, proraw_rgb48, anchor_render, gain_map) ==
    LET jobs == RenderJobs(candidate_rgb48, baseline_rgb48, ccm, tone_curve, proraw_rgb48,
                           anchor_render, gain_map)
        failed == {n \in 1 .. Len(jobs) : jobs[n].render.status = "error"}
    IN  IF failed # {} THEN jobs[CHOOSE n \in failed : \A m \in failed : n <= m].render
        ELSE Ok([name \in {jobs[n].name : n \in 1 .. Len(jobs)} |->
                    jobs[CHOOSE n \in 1 .. Len(jobs) : jobs[n].name = name].render.value])

\* a - b with torch's broadcasting, for tensors of one rank
SubBroadcast(a, b) ==
    IF ~BroadcastCompatible(a.shape, b.shape) THEN
        RuntimeError("The size of tensor a must match the size of tensor b")
    ELSE
        LET shape == BroadcastShape(a.shape, b.shape)
        IN  Ok(MkTensor(shape,
                        LAMBDA i : RSub(At(ExpandTo(a, shape), i), At(ExpandTo(b, shape), i))))

\* The tensors of the result with the storage each of them occupies: the
\* name of the argument whose storage it is, or "fresh" for a tensor the call
\* allocated.  Only the shape of candidate_mosaic is compared with the
\* anchor's; mosaics["anchor"] is the argument itself.  Every statement of
\* the function is evaluated once, in the order of the source.
build_analysis_artifacts(anchor_mosaic, candidate_rgb48, baseline_rgb48, proraw_rgb48, anchor_render, gain_map, cfa_pattern, channel_scale, ccm, tone_curve) ==
    Bind(quad_bayer_forward(candidate_rgb48, cfa_pattern, channel_scale), LAMBDA candidate_mosaic :
    IF candidate_mosaic.status = "error" THEN candidate_mosaic
    ELSE
    Bind(quad_bayer_forward(baseline_rgb48, cfa_pattern, channel_scale), LAMBDA baseline_mosaic :
    IF baseline_mosaic.status = "error" THEN baseline_mosaic
    ELSE IF anchor_mosaic.shape # candidate_mosaic.value.shape THEN
        ValueError("anchor_mosaic must match forward-projected shape")
    ELSE
    Bind(SubBroadcast(candidate_mosaic.value, anchor_mosaic), LAMBDA candidate :
    Bind(SubBroadcast(baseline_mosaic.value, anchor_mosaic), LAMBDA baseline :
    IF baseline.status = "error" THEN baseline
    ELSE
    Bind(per_cfa_error_histogram(candidate.value, cfa_pattern, DefaultNumBins, DefaultValueRange), LAMBDA candidate_hist :
    IF candidate_hist.status = "error" THEN candidate_hist
    ELSE
    Bind(per_cfa_error_histogram(baseline.value, cfa_pattern, DefaultNumBins, DefaultValueRange), LAMBDA baseline_hist :
    IF baseline_hist.status = "error" THEN baseline_hist
    ELSE
    Bind(_render_stack(candidate_rgb48, baseline_rgb48, ccm, tone_curve, proraw_rgb48, anchor_render, gain_map), LAMBDA renders :
    IF renders.status = "error" THEN renders
    ELSE
        Ok([mosaics |->
                [candidate |-> [tensor |-> candidate_mosaic.value, storage |-> "fresh"],
                 baseline |-> [tensor |-> baseline_mosaic.value, storage |-> "fresh"],
                 anchor |-> [tensor |-> anchor_mosaic, storage |-> "anchor_mosaic"]],
            residuals |->
                [candidate |-> [tensor |-> candidate.value, storage |-> "fresh"],
                 baseline |-> [tensor |-> baseline.value, storage |-> "fresh"]],
            histograms |->
                [candidate |-> candidate_hist.value, baseline |-> baseline_hist.value],
            renders |->
                [name \in DOMAIN renders.value |->
                    [tensor |-> renders.value[name], storage |-> "fresh"]]]))))))))

(***************************************************************************)
(* reporting.py, qualitative.py                                            *)
(***************************************************************************)
\* A SampleComparison is [sample_id, candidate, baseline], the two metric
\* dictionaries functions from metric names to values.
RECURSIVE SumSeq(_)
SumSeq(vals) == IF vals = <<>> THEN RZero ELSE RAdd(Head(vals), SumSeq(Tail(vals)))

_mean(vals) ==
    IF vals = <<>> THEN ValueError("cannot compute mean of empty sequence")
    ELSE Ok(RDiv(SumSeq(vals), RInt(Len(vals))))

\* SampleComparison.delta: over the metrics both dictionaries hold
SampleDelta(sample) ==
    [key \in (DOMAIN sample.candidate) \cap (DOMAIN sample.baseline) |->
        RSub(sample.candidate[key], sample.baseline[key])]

\* [s.candidate[name] for s in samples if name in s.candidate], and the same
\* for the baseline
CandidateVals(samples, name) ==
    LET having == SelectSeq(samples, LAMBDA smp : name \in DOMAIN smp.candidate)
    IN  [n \in 1 .. Len(having) |-> having[n].candidate[name]]
BaselineVals(samples, name) ==
    LET having == SelectSeq(samples, LAMBDA smp : name \in DOMAIN smp.baseline)
    IN  [n \in 1 .. Len(having) |-> having[n].baseline[name]]

\* cv - bv for cv, bv in zip(candidate_vals, baseline_vals): as long as the
\* shorter of the two
ZipDiffs(candidate_vals, baseline_vals) ==
    LET len == IF Len(candidate_vals) < Len(baseline_vals) THEN Len(candidate_vals)
               ELSE Len(baseline_vals)
    IN  [n \in 1 .. len |-> RSub(candidate_vals[n], baseline_vals[n])]

\* Mutant: no samples give an empty summary.
summarize_samples_lenient(samples) ==
    LET metric_names == UNION {DOMAIN samples[n].candidate : n \in 1 .. Len(samples)}
        kept == {name \in metric_names :
                    CandidateVals(samples, name) # <<>> /\ BaselineVals(samples, name) # <<>>}
    IN  Ok([name \in kept |->
               [candidate |-> _mean(CandidateVals(samples, name)).value,
                baseline |-> _mean(BaselineVals(samples, name)).value,
                delta |-> _mean(ZipDiffs(CandidateVals(samples, name),
                                         BaselineVals(samples, name))).value]])

\* The metrics of the summary are those of the candidate dictionaries that
\* some baseline dictionary holds too.
summarize_samples(samples) ==
    IF samples = <<>> THEN ValueError("no samples provided for summary")
    ELSE
        LET metric_names == UNION {DOMAIN samples[n].candidate : n \in 1 .. Len(samples)}
            kept == {name \in metric_names :
                        CandidateVals(samples, name) # <<>>
                            /\ BaselineVals(samples, name) # <<>>}
        IN  Ok([name \in kept |->
                   [candidate |-> _mean(CandidateVals(samples, name)).value,
                    baseline |-> _mean(BaselineVals(samples, name)).value,
                    delta |-> _mean(ZipDiffs(CandidateVals(samples, name),
                                             BaselineVals(samples, name))).value]])

\* QualitativeSet.tag_counts: how often each tag occurs in the samples' tag lists
tag_counts(qualitative_samples) ==
    LET tags == UNION {{qualitative_samples[n].tags[m] :
                           m \in 1 .. Len(qualitative_samples[n].tags)} :
                       n \in 1 .. Len(qualitative_samples)}
    IN  [tag \in tags |->
            Cardinality({<<n, m>> \in (1 .. Len(qualitative_samples)) \X (1 .. 3) :
                            /\ m <= Len(qualitative_samples[n].tags)
                            /\ qualitative_samples[n].tags[m] = tag})]

\* The report holds "qualitative" only when a qualitative set is given.
generate_report(samples, qualitative_set) ==
    LET summary == summarize_samples(samples)
        sample_entries ==
            [n \in 1 .. Len(samples) |->
                [id |-> samples[n].sample_id, candidate |-> samples[n].candidate,
                 baseline |-> samples[n].baseline, delta |-> SampleDelta(samples[n])]]
    IN  IF summary.status = "error" THEN summary
        ELSE IF IsNone(qualitative_set) THEN
            Ok([summary |-> summary.value, samples |-> sample_entries])
        ELSE
            Ok([summary |-> summary.value, samples |-> sample_entries,
                qualitative |-> [num_samples |-> Len(qualitative_set[1]),
                                 tag_counts |-> tag_counts(qualitative_set[1])]])

(***************************************************************************)
(* Arguments the operations are called with.                               *)
(***************************************************************************)
Patterns == CFAPatterns \cup {"xtrans"}

Zeros(shape) == MkTensor(shape, LAMBDA i : RZero)
Impulse(shape, at) == MkTensor(shape, LAMBDA i : IF i = at THEN ROne ELSE RZero)
Planes(shape, rgb) == MkTensor(shape, LAMBDA i : RInt(rgb[i[2] + 1]))
\* channel c at (y, x) holds 1 + c + y * W + x, as in test_risk.py
Ramp(shape) ==
    MkTensor(shape, LAMBDA i : RInt(1 + i[1] + i[2] + i[3] * shape[4] + i[4]))

Ones(shape) == MkTensor(shape, LAMBDA i : ROne)
Const(shape, c) == MkTensor(shape, LAMBDA i : c)

\* v at one pixel of every image of the batch, rest elsewhere, as the anchors
\* of test_baselines.py
TwoLevel(shape, y, x, v, rest) ==
    MkTensor(shape, LAMBDA i : IF i[3] = y /\ i[4] = x THEN v ELSE rest)

\* x + c
Offset(x, c) == [shape |-> x.shape, data |-> [k \in DOMAIN x.data |-> RAdd(x.data[k], c)]]

\* x / 100
Hundredths(x) == [shape |-> x.shape, data |-> [k \in DOMAIN x.data |-> RDiv(x.data[k], RInt(100))]]

Indices(shape) == {Unravel(shape, k) : k \in 0 .. (Numel(shape) - 1)}

Rgb48Shapes ==
    {<<b, 3, h, w>> : b \in 1 .. MaxBatch, h \in {2, 4}, w \in {2, 4}}

Rgb48Of(shape) ==
    {Impulse(shape, at) : at \in {i \in Indices(shape) : i[1] = shape[1] - 1}}
        \cup {Planes(shape, rgb) : rgb \in {<<1, 2, 4>>, <<2, 2, 2>>, <<3, 1, 2>>}}
        \cup {Ramp(shape)}

\* Shapes of every rank, channel count and parity, for the shape checks.
ProbeShapes ==
    {<<b, c, h, w>> : b \in {1}, c \in {1, 3, 4}, h \in 1 .. MaxDim, w \in 1 .. MaxDim}
        \cup {<<3, h, w>> : h \in {2, 3}, w \in {2, 3}}
        \cup {<<1, 1, 3, h, w>> : h \in {2, 3}, w \in {2, 3}}

VecOf(seq) == [shape |-> <<Len(seq)>>, data |-> [k \in 0 .. (Len(seq) - 1) |-> seq[k + 1]]]

ChannelScales ==
    {None,
     Some(VecOf(<<RInt(2), ROne, Rat(1, 2)>>)),
     Some(VecOf(<<ROne, RInt(2), Rat(1, 2)>>)),
     Some(VecOf(<<ROne, ROne, ROne, ROne>>)),
     Some(View(VecOf(<<ROne, ROne, ROne>>), <<3, 1>>))}

Idle == [op |-> "idle"]
NoResult == [status |-> "none"]

Init == call = Idle /\ result = NoResult

Return ==
    /\ call.op # "idle"
    /\ call' = Idle
    /\ result' = NoResult

ChannelIndexMap ==
    /\ call.op = "idle"
    /\ \E height \in 1 .. (2 * MaxDim), width \in 1 .. (2 * MaxDim), pattern \in Patterns :
          /\ call' = [op |-> "_channel_index_map", height |-> height, width |-> width,
                      pattern |-> pattern]
          /\ result' = Ok(_channel_index_map(height, width, pattern))

QuadBayerForward ==
    /\ call.op = "idle"
    /\ \E shape \in Rgb48Shapes \cup ProbeShapes :
          \E rgb48 \in IF shape \in Rgb48Shapes THEN Rgb48Of(shape) ELSE {Zeros(shape)},
             cfa_pattern \in Patterns, channel_scale \in ChannelScales :
             /\ call' = [op |-> "quad_bayer_forward", rgb48 |-> rgb48,
                         cfa_pattern |-> cfa_pattern, channel_scale |-> channel_scale]
             /\ result' = quad_bayer_forward(rgb48, cfa_pattern, channel_scale)

BayerChannelMap ==
    /\ call.op = "idle"
    /\ \E height \in 1 .. MaxDim, width \in 1 .. MaxDim, pattern \in Patterns,
          module \in {"evaluation", "risk"} :
          /\ call' = [op |-> "_bayer_channel_map", module |-> module, height |-> height,
                      width |-> width, pattern |-> pattern]
          /\ result' = Ok(IF module = "evaluation"
                             THEN _bayer_channel_map(height, width, pattern)
                             ELSE risk_bayer_channel_map(height, width, pattern))

QuadBinnerResidual ==
    /\ call.op = "idle"
    /\ \E shape \in Rgb48Shapes \cup ProbeShapes :
          \E rgb48 \in IF shape \in Rgb48Shapes THEN Rgb48Of(shape) ELSE {Zeros(shape)},
             cfa_pattern \in Patterns, channel_scale \in ChannelScales :
             /\ call' = [op |-> "quad_binner_residual", rgb48 |-> rgb48,
                         cfa_pattern |-> cfa_pattern, channel_scale |-> channel_scale]
             /\ result' = quad_binner_residual(rgb48, cfa_pattern, channel_scale)

NextForward ==
    ChannelIndexMap \/ BayerChannelMap \/ QuadBayerForward \/ QuadBinnerResidual \/ Return

SpecForward == Init /\ [][NextForward]_vars

\* The prediction of test_gradient_detail_loss_applies_global_render: the red
\* channel is 1 in the last column.
RedEdge(shape) ==
    MkTensor(shape, LAMBDA i : IF i[2] = 0 /\ i[4] = shape[4] - 1 THEN ROne ELSE RZero)

RenderShapes == {<<1, 3, h, w>> : h \in 2 .. (MaxDim - 1), w \in 2 .. (MaxDim - 1)}

RenderImages(shape) ==
    {Impulse(shape, at) : at \in Indices(shape)}
        \cup {RedEdge(shape), Zeros(shape), Planes(shape, <<1, 2, 4>>)}

MatOf(rows) ==
    MkTensor(<<Len(rows), Len(rows[1])>>, LAMBDA i : RInt(rows[i[1] + 1][i[2] + 1]))

Ccms ==
    {None,
     Some(MatOf(<<<<2, 0, 0>>, <<0, 1, 0>>, <<0, 0, 1>>>>)),
     Some(MatOf(<<<<1, 1, 0>>, <<0, 1, 0>>, <<0, 0, 1>>>>)),
     Some(MatOf(<<<<1, 0, 0>>, <<0, 1, 0>>>>))}

ToneCurves == {None, Some("square"), Some("halve")}

GlobalRender ==
    /\ call.op = "idle"
    /\ \E shape \in RenderShapes :
          \E rgb \in RenderImages(shape), ccm \in Ccms, tone_curve \in ToneCurves,
             module \in {"losses", "evaluation"} :
             /\ call' = [op |-> "_apply_global_render", module |-> module, rgb |-> rgb,
                         ccm |-> ccm, tone_curve |-> tone_curve]
             /\ result' = IF module = "losses"
                            THEN _apply_global_render(rgb, ccm, tone_curve)
                            ELSE evaluation_apply_global_render(rgb, ccm, tone_curve)

GradientDetailLoss ==
    /\ call.op = "idle"
    /\ \E shape \in RenderShapes :
          \E pred_rgb48 \in RenderImages(shape),
             reference_rgb48 \in {Zeros(shape), RedEdge(shape), Zeros(<<1, 3, 2, 4>>)},
             ccm \in Ccms, tone_curve \in ToneCurves :
             /\ call' = [op |-> "gradient_detail_loss", pred_rgb48 |-> pred_rgb48,
                         reference_rgb48 |-> reference_rgb48, ccm |-> ccm,
                         tone_curve |-> tone_curve]
             /\ result' = gradient_detail_loss(pred_rgb48, reference_rgb48, ccm,
                                               tone_curve)

\* Targets of the mosaic's shape, and of shapes that would broadcast against
\* it or not.
TargetShapes(shape) ==
    {<<shape[1], 1, shape[3] \div 2, shape[4] \div 2>>, <<1, 1, 1, 1>>,
     <<shape[1], 1, shape[3] \div 2, 1>>, <<1, shape[3] \div 2, shape[4] \div 2>>,
     <<shape[1], 1, shape[3], shape[4]>>, <<shape[1] + 1, 1, shape[3] \div 2, shape[4] \div 2>>}

AnchorCharbonnierLoss ==
    /\ call.op = "idle"
    /\ \E shape \in {<<b, 3, h, w>> : b \in 1 .. 2, h \in 2 .. (MaxDim - 1),
                                       w \in {2, 4}} :
          \E pred_rgb48 \in {Planes(shape, <<1, 2, 4>>), Ramp(shape), Zeros(shape)},
             target_shape \in TargetShapes(shape),
             cfa_pattern \in {"rggb", "bggr"},
             channel_scale \in {None, Some(VecOf(<<RInt(2), ROne, Rat(1, 2)>>)),
                                Some(VecOf(<<ROne, ROne>>))} :
             \E target_mosaic \in {Zeros(target_shape),
                                   Impulse(target_shape,
                                           [n \in 1 .. Len(target_shape) |-> 0])} :
                /\ call' = [op |-> "anchor_charbonnier_loss", pred_rgb48 |-> pred_rgb48,
                            target_mosaic |-> target_mosaic, cfa_pattern |-> cfa_pattern,
                            channel_scale |-> channel_scale, eps |-> CharbonnierEps]
                /\ result' = anchor_charbonnier_loss(pred_rgb48, target_mosaic,
                                                     cfa_pattern, channel_scale,
                                                     CharbonnierEps)

\* The offsets a target is moved from the projected prediction by.
MosaicOffsets == {RZero, Rat(1, 10), Rat(-1, 10), Rat(1, 2), Rat(-1, 2), RInt(-2)}

\* Targets that are the forward projection of the prediction plus a uniform
\* offset, as in test_losses.py.
AnchorCharbonnierOffset ==
    /\ call.op = "idle"
    /\ \E shape \in {<<b, 3, h, w>> : b \in 1 .. 2, h \in {2, 4}, w \in {2, 4}} :
          \E pred_rgb48 \in {Planes(shape, <<1, 2, 4>>), Ramp(shape), Ones(shape)},
             cfa_pattern \in {"rggb", "bggr"},
             channel_scale \in {None, Some(VecOf(<<RInt(2), ROne, Rat(1, 2)>>))},
             d \in MosaicOffsets, eps \in {CharbonnierEps, Rat(1, 10)} :
             LET target_mosaic ==
                     Offset(quad_bayer_forward(pred_rgb48, cfa_pattern,
                                               channel_scale).value, d)
             IN  /\ call' = [op |-> "anchor_charbonnier_loss",
                             pred_rgb48 |-> pred_rgb48, target_mosaic |-> target_mosaic,
                             cfa_pattern |-> cfa_pattern,
                             channel_scale |-> channel_scale, eps |-> eps]
                 /\ result' = anchor_charbonnier_loss(pred_rgb48, target_mosaic,
                                                      cfa_pattern, channel_scale, eps)

\* The gain map of test_losses.py, [[0.4, 1.4], [1.0, 2.5]], tiled over the image.
TiledGain(shape) ==
    MkTensor(shape,
             LAMBDA i : CASE i[3] % 2 = 0 /\ i[4] % 2 = 0 -> Rat(2, 5)
                          [] i[3] % 2 = 0 /\ i[4] % 2 = 1 -> Rat(7, 5)
                          [] i[3] % 2 = 1 /\ i[4] % 2 = 0 -> ROne
                          [] OTHER -> Rat(5, 2))

GainMaps(shape) ==
    {Const(shape, c) : c \in {Rat(2, 5), Rat(1, 2), ROne, RInt(2), Rat(5, 2)}}
        \cup {TiledGain(shape), Ramp(shape)}
        \cup {Offset(Impulse(shape, at), Rat(1, 2)) : at \in Indices(shape)}

GainRegularization ==
    /\ call.op = "idle"
    /\ \E shape \in {<<1, c, h, w>> : c \in {1, 3}, h \in 2 .. (MaxDim - 1),
                                       w \in 2 .. (MaxDim - 1)} :
          \E gain_map \in GainMaps(shape) \cup {Zeros(<<3, 2, 2>>)},
             smoothness_weight \in {ROne, RInt(2), Rat(1, 2)},
             range \in {<<Rat(1, 2), RInt(2)>>, <<Rat(1, 4), RInt(4)>>} :
             /\ call' = [op |-> "gain_regularization", gain_map |-> gain_map,
                         smoothness_weight |-> smoothness_weight,
                         min_gain |-> range[1], max_gain |-> range[2]]
             /\ result' = gain_regularization(gain_map, smoothness_weight, range[1],
                                              range[2])

NextLoss ==
    \/ GlobalRender
    \/ GradientDetailLoss
    \/ AnchorCharbonnierLoss
    \/ AnchorCharbonnierOffset
    \/ GainRegularization
    \/ Return

SpecLoss == Init /\ [][NextLoss]_vars

\* Every other row lit: equal to itself rolled by two rows when H is even.
Stripes(shape) == MkTensor(shape, LAMBDA i : IF i[3] % 2 = 0 THEN ROne ELSE RZero)

MosaicShapes ==
    {<<1, 1, n, n>> : n \in 1 .. MaxMosaicDim}
        \cup {<<1, 1, 1, n>> : n \in 2 .. MaxMosaicDim}
        \cup {<<1, 1, n, 1>> : n \in 2 .. MaxMosaicDim}

\* One lit pixel in the first row (in the only column of a one-column image),
\* and three images that equal some of their own rolls.
Mosaics(shape) ==
    {Impulse(shape, at) : at \in {i \in Indices(shape) : i[3] = 0 \/ shape[4] = 1}}
        \cup {Zeros(shape), Ones(shape), Stripes(shape)}

Window(max_shift) == (-max_shift .. max_shift) \X (-max_shift .. max_shift)

\* The simulated mosaics an anchor is compared with: the anchor itself, the
\* anchor rolled, and one unrelated to it.
SimulatedFor(anchor) ==
    {Roll(anchor, s[1], s[2]) : s \in Window(DefaultMaxShift)}
        \cup {Zeros(anchor.shape)}

\* max_shift is an unchecked int: a negative one makes both loops empty.
DetectMisalignment ==
    /\ call.op = "idle"
    /\ \E shape \in MosaicShapes :
          \E anchor \in Mosaics(shape) :
             \E simulated \in SimulatedFor(anchor),
                max_shift \in {-1, 1, DefaultMaxShift},
                psnr_threshold \in {5, DefaultPsnrThreshold} :
                /\ call' = [op |-> "detect_misalignment", anchor_mosaic |-> anchor,
                            simulated_mosaic |-> simulated, max_shift |-> max_shift,
                            psnr_threshold |-> psnr_threshold]
                /\ result' = detect_misalignment(anchor, simulated, max_shift,
                                                 psnr_threshold)

\* Calls with a (C, H, W) tensor, a tensor of another rank, or two shapes.
DetectMisalignmentShapes ==
    /\ call.op = "idle"
    /\ \E sa \in {<<1, 3, 3>>, <<1, 1, 3, 3>>, <<3, 3>>},
          ss \in {<<1, 3, 3>>, <<1, 1, 3, 3>>, <<3, 3>>, <<1, 1, 3, 2>>} :
          \E at \in Indices(sa) :
             /\ call' = [op |-> "detect_misalignment", anchor_mosaic |-> Impulse(sa, at),
                         simulated_mosaic |-> Zeros(ss), max_shift |-> DefaultMaxShift,
                         psnr_threshold |-> DefaultPsnrThreshold]
             /\ result' = detect_misalignment(Impulse(sa, at), Zeros(ss),
                                              DefaultMaxShift, DefaultPsnrThreshold)

\* A mosaic whose pixels hold rgb[role + 1] on each role of the pixel-parity
\* map, times (b + 1) in batch element b.
RoleMosaic(shape, pattern, rgb) ==
    MkTensor(shape,
             LAMBDA i : RMul(RInt(i[1] + 1),
                             rgb[risk_BayerChannelAt(i[3], i[4], pattern) + 1]))

\* (r, g, b): the values of test_risk.py, a grey, and two more
RoleValues ==
    {<<Rat(1, 2), ROne, Rat(4, 5)>>, <<ROne, ROne, ROne>>, <<Rat(1, 4), Rat(1, 2), ROne>>,
     <<RInt(2), ROne, Rat(1, 2)>>}

WhiteBalanceMosaics ==
    UNION {{RoleMosaic(<<batch, 1, h, w>>, pattern, rgb) :
               rgb \in RoleValues, pattern \in {"rggb", "bggr", "grbg", "gbrg"}}
           \cup {Ramp(<<batch, 1, h, w>>)}
           : batch \in 1 .. 2, h \in {2, 4}, w \in {2, 4}}
    \cup {Ones(<<1, 4, 4>>), Ones(<<1, 3, 2, 2>>), Ones(<<1, 1, 3, 2>>), Ones(<<1, 1, 2, 3>>),
          Ones(<<2, 2>>)}

EstimateWhiteBalance ==
    /\ call.op = "idle"
    /\ \E mosaic \in WhiteBalanceMosaics, cfa_pattern \in {"rggb", "bggr", "grbg", "gbrg"},
          eps \in {WhiteBalanceEps, Rat(1, 100)} :
          /\ call' = [op |-> "estimate_white_balance_neutral", mosaic |-> mosaic,
                      cfa_pattern |-> cfa_pattern, eps |-> eps]
          /\ result' = estimate_white_balance_neutral(mosaic, cfa_pattern, eps)

\* Target vectors: closed-form neutrals of the role values, multiples of
\* them, the grey vector, and one of four elements.
TargetNeutrals ==
    {VecOf(<<RInt(2), ROne, Rat(5, 4)>>), VecOf(<<RInt(4), RInt(2), Rat(5, 2)>>),
     VecOf(<<RInt(-2), RInt(-1), Rat(-5, 4)>>), VecOf(<<ROne, ROne, ROne>>),
     VecOf(<<RInt(2), ROne, Rat(1, 2)>>), VecOf(<<Rat(1, 2), ROne, RInt(2)>>),
     View(VecOf(<<Rat(41, 20), ROne, Rat(5, 4)>>), <<1, 3>>),
     VecOf(<<ROne, ROne, ROne, ROne>>)}

WhiteBalanceConsistency ==
    /\ call.op = "idle"
    /\ \E mosaic \in WhiteBalanceMosaics, target_neutral \in TargetNeutrals,
          cfa_pattern \in {"rggb", "bggr"},
          tolerance \in {DefaultTolerance, Rat(1, 100)} :
          /\ call' = [op |-> "white_balance_consistency", mosaic |-> mosaic,
                      target_neutral |-> target_neutral, cfa_pattern |-> cfa_pattern,
                      tolerance |-> tolerance]
          /\ result' = white_balance_consistency(mosaic, target_neutral, cfa_pattern,
                                                 tolerance)

NextRisk ==
    \/ DetectMisalignment
    \/ DetectMisalignmentShapes
    \/ EstimateWhiteBalance
    \/ WhiteBalanceConsistency
    \/ Return

SpecRisk == Init /\ [][NextRisk]_vars

(***************************************************************************)
(* Calls of the evaluation metrics                                         *)
(***************************************************************************)


EvalShapes ==
    {<<1, 1, h, w>> : h, w \in 1 .. MaxEvalDim} \cup {<<1, MaxEvalDim, MaxEvalDim>>}

EvalImages(shape) ==
    {Impulse(shape, at) : at \in Indices(shape)} \cup {Zeros(shape), Ones(shape)}

\* The targets a prediction is compared with: itself, itself plus a uniform
\* offset, and unrelated images of its shape or of another shape or rank.
EvalTargets(pred) ==
    {pred, Offset(pred, Rat(1, 2)), Offset(pred, Rat(1, 4)), Offset(pred, Rat(-1, 10)),
     Zeros(pred.shape), Zeros(<<1, 1, 1, MaxEvalDim + 1>>),
     Zeros(<<MaxEvalDim, MaxEvalDim>>)}

MaxVals == {ROne, RInt(2)}

Psnr ==
    /\ call.op = "idle"
    /\ \E shape \in EvalShapes :
          \E pred \in EvalImages(shape) \cup {Zeros(<<MaxEvalDim, MaxEvalDim>>)} :
             \E target \in EvalTargets(pred), max_val \in MaxVals :
                /\ call' = [op |-> "psnr", pred |-> pred, target |-> target,
                            max_val |-> max_val]
                /\ result' = psnr(pred, target, max_val)

\* The residual of test_evaluation.py: rows of +-0.1, 0, +-0.05 and 0.
TestResidual ==
    MkTensor(<<1, 1, 4, 4>>,
             LAMBDA i : IF i[3] = 0 THEN Rat(IF i[4] % 2 = 0 THEN 1 ELSE -1, 10)
                        ELSE IF i[3] = 2 THEN Rat(IF i[4] % 2 = 0 THEN 1 ELSE -1, 20)
                        ELSE RZero)

\* A residual holding 0.05 on the red, 0 on the green and -0.05 on the blue
\* pixels of the pattern, plus 0.01 per image of the batch.
RoleResidual(shape, pattern) ==
    MkTensor(shape,
             LAMBDA i : RAdd(Rat(1 - BayerChannelAt(i[3], i[4], pattern), 20),
                             Rat(i[1], 100)))

Residuals ==
    {TestResidual, Hundredths(Ramp(<<2, 1, 2, 2>>)), Hundredths(Ramp(<<1, 1, 2, 2>>)),
     Hundredths(Ramp(<<4, 1, 4, 4>>)), Zeros(<<0, 1, 0, 0>>), Zeros(<<1, 2, 2>>),
     Zeros(<<1, 3, 2, 2>>), Zeros(<<1, 1, 3, 3>>), Zeros(<<2, 2>>)}
        \cup {RoleResidual(<<2, 1, 2, 2>>, pattern) : pattern \in CFAPatterns}

ValueRanges ==
    {DefaultValueRange, <<Rat(-1, 10), Rat(1, 10)>>, <<RZero, RZero>>,
     <<Rat(1, 10), Rat(-1, 10)>>}

PerCfaErrorHistogram ==
    /\ call.op = "idle"
    /\ \E residual_mosaic \in Residuals, cfa_pattern \in CFAPatterns,
          num_bins \in {4, 10, DefaultNumBins}, value_range \in ValueRanges :
          /\ call' = [op |-> "per_cfa_error_histogram", residual_mosaic |-> residual_mosaic,
                      cfa_pattern |-> cfa_pattern, num_bins |-> num_bins,
                      value_range |-> value_range]
          /\ result' = per_cfa_error_histogram(residual_mosaic, cfa_pattern, num_bins,
                                               value_range)

NextEval == Psnr \/ PerCfaErrorHistogram \/ Return

SpecEval == Init /\ [][NextEval]_vars

(***************************************************************************)
(* Calls of the two baselines                                              *)
(***************************************************************************)


\* batch element b holds the constant (b + 1) * c
PerBatch(shape, c) == MkTensor(shape, LAMBDA i : RMul(RInt(i[1] + 1), c))

BaselineSizes == {<<2, 2>>, <<4, 4>>, <<2, 4>>}

\* ProRAW frames whose forward projection is one constant per batch element.
FlatProraws(batch, size) ==
    LET shape == <<batch, 3, size[1], size[2]>>
    IN  {Const(shape, c) : c \in {Rat(1, 4), Rat(1, 2), ROne, Rat(-1, 2)}}
            \cup {PerBatch(shape, Rat(1, 2))}

\* ProRAW frames with different planes, or one lit pixel.
VariedProraws(batch, size) ==
    LET shape == <<batch, 3, size[1], size[2]>>
    IN  {Planes(shape, <<1, 2, 4>>), Impulse(shape, <<batch - 1, 1, 1, 0>>)}

Anchors(batch, size) ==
    LET shape == <<batch, 1, size[1] \div 2, size[2] \div 2>>
        h == shape[3]
        w == shape[4]
    IN  {Const(shape, Rat(1, 2)), Const(shape, ROne),
         TwoLevel(shape, 0, 0, ROne, RInt(8)),
         TwoLevel(shape, h - 1, w - 1, RInt(2), ROne),
         TwoLevel(shape, h - 1, w - 1, RInt(3), ROne)}

\* Pairs of tensors whose shapes fail one of the checks, with the well-shaped
\* pair among them.
ShapeProbes ==
    {<<Const(sp, ROne), Const(sa, ROne)>> :
        sp \in {<<1, 3, 4, 4>>, <<3, 4, 4>>, <<1, 1, 4, 4>>, <<1, 3, 3, 4>>, <<1, 3, 4, 3>>,
                <<2, 3, 4, 4>>},
        sa \in {<<1, 1, 2, 2>>, <<1, 2, 2>>, <<1, 3, 2, 2>>, <<2, 1, 2, 2>>, <<1, 1, 4, 4>>,
                <<1, 1, 2, 1>>}}

\* (proraw_rgb48, anchor_mosaic, cfa_pattern, channel_scale, eps).  The
\* default eps goes with the flat frames; a frame whose projection varies is
\* given eps = 1/8.
BaselineInputs ==
    UNION {
        {<<p, a, "rggb", None, DefaultEps>> :
            p \in FlatProraws(batch, size), a \in Anchors(batch, size)}
        \cup {<<p, a, cfa_pattern, scale, Rat(1, 8)>> :
            p \in VariedProraws(batch, size),
            a \in {Const(<<batch, 1, size[1] \div 2, size[2] \div 2>>, ROne),
                   TwoLevel(<<batch, 1, size[1] \div 2, size[2] \div 2>>, 0, 0,
                            ROne, RInt(2))},
            cfa_pattern \in {"rggb", "grbg"},
            scale \in {None, Some(VecOf(<<RInt(2), ROne, Rat(1, 2)>>))}}
        : batch \in 1 .. MaxBaselineBatch, size \in BaselineSizes}
    \cup {<<pa[1], pa[2], "rggb", None, DefaultEps>> : pa \in ShapeProbes}
    \cup {<<Const(<<1, 3, 2, 2>>, ROne), Const(<<1, 1, 1, 1>>, ROne), "rggb",
            Some(VecOf(<<ROne, ROne>>)), DefaultEps>>}

\* (inverse_tone_curve, gain_percentile, min_gain, max_gain): the defaults,
\* and the ones of test_baselines.py
GlobalDelTmOptions ==
    {<<None, Rat(1, 2), Rat(1, 4), RInt(4)>>,
     <<Some("square"), Rat(1, 2), Rat(1, 4), RInt(4)>>,
     <<None, Rat(3, 4), Rat(1, 2), RInt(6)>>,
     <<None, Rat(1, 4), Rat(1, 2), RInt(3)>>}

GlobalDelTm ==
    /\ call.op = "idle"
    /\ \E in \in BaselineInputs, opt \in GlobalDelTmOptions :
          /\ call' = [op |-> "global_del_tm_baseline", proraw_rgb48 |-> in[1],
                      anchor_mosaic |-> in[2], cfa_pattern |-> in[3],
                      inverse_tone_curve |-> opt[1], channel_scale |-> in[4],
                      gain_percentile |-> opt[2], min_gain |-> opt[3],
                      max_gain |-> opt[4], eps |-> in[5]]
          /\ result' = global_del_tm_baseline(in[1], in[2], in[3], opt[1], in[4],
                                              opt[2], opt[3], opt[4], in[5])

DefaultSmoothingKernel == 7

\* (smoothing_kernel, min_gain, max_gain): the defaults, the ones of
\* test_baselines.py, and an even kernel
GainFieldOptions ==
    {<<DefaultSmoothingKernel, Rat(1, 4), RInt(4)>>,
     <<3, Rat(1, 2), RInt(3)>>,
     <<1, Rat(1, 2), RInt(4)>>,
     <<3, Rat(1, 2), RInt(4)>>,
     <<2, Rat(1, 4), RInt(4)>>}

GainField ==
    /\ call.op = "idle"
    /\ \E in \in BaselineInputs, opt \in GainFieldOptions :
          /\ call' = [op |-> "gain_field_baseline", proraw_rgb48 |-> in[1],
                      anchor_mosaic |-> in[2], cfa_pattern |-> in[3],
                      channel_scale |-> in[4], smoothing_kernel |-> opt[1],
                      min_gain |-> opt[2], max_gain |-> opt[3], eps |-> in[5]]
          /\ result' = gain_field_baseline(in[1], in[2], in[3], in[4], opt[1],
                                           opt[2], opt[3], in[5])

NextBaseline == GlobalDelTm \/ GainField \/ Return

SpecBaseline == Init /\ [][NextBaseline]_vars

(***************************************************************************)
(* Calls of the composition and analysis helpers                           *)
(***************************************************************************)
\* Full-resolution frames: the ones of test_gain_field_io.py, frames with
\* two images, and shapes the checks reject.
ComposeFrames ==
    {Ones(<<1, 3, 4, 4>>), Ones(<<2, 3, 4, 4>>), Ramp(<<1, 3, 2, 4>>), Ones(<<3, 3, 2, 2>>),
     Ones(<<3, 4, 4>>), Ones(<<1, 1, 4, 4>>)}

\* Gain fields: the uniform 0.5 of test_gain_field_io.py, graded ones, ones
\* with another batch size, and shapes the checks reject.
ComposeGains ==
    {Const(<<1, 3, 2, 2>>, Rat(1, 2)), Const(<<2, 3, 2, 2>>, Rat(1, 2)),
     Ramp(<<1, 3, 2, 2>>), Ramp(<<2, 3, 1, 2>>), Const(<<1, 3, 1, 1>>, RInt(2)),
     Ones(<<3, 2, 2>>), Ones(<<1, 1, 2, 2>>)}

\* Detail maps for a frame: the uniform 0.25 of test_gain_field_io.py,
\* negative ones, and ones of another shape or rank.
ComposeDetails(pro_raw48) ==
    {Const(pro_raw48.shape, Rat(1, 4)), Const(pro_raw48.shape, RInt(-3)),
     Const(pro_raw48.shape, Rat(-3, 4)), Zeros(<<1, 3, 2, 2>>), Zeros(<<3, 4, 4>>)}

ComposeLinearPrediction ==
    /\ call.op = "idle"
    /\ \E pro_raw48 \in ComposeFrames, gain \in ComposeGains :
          \E detail \in ComposeDetails(pro_raw48) :
             /\ call' = [op |-> "compose_linear_prediction", pro_raw48 |-> pro_raw48,
                         gain |-> gain, detail |-> detail]
             /\ result' = compose_linear_prediction(pro_raw48, gain, detail)

\* Anchor mosaics: those of test_analysis.py, and ones of two images, which
\* the histograms accept.
AnalysisAnchors ==
    {Zeros(<<1, 1, 2, 2>>), Const(<<1, 1, 2, 2>>, Rat(1, 2)), Zeros(<<2, 1, 2, 2>>),
     Const(<<2, 1, 2, 2>>, Rat(1, 2)), Hundredths(Ramp(<<2, 1, 2, 2>>)), Zeros(<<2, 1, 1, 1>>)}

\* Candidate and baseline frames: those of test_analysis.py, frames of two
\* images, frames of another size, and shapes quad_bayer_forward rejects.
AnalysisFrames ==
    {Ones(<<1, 3, 4, 4>>), Zeros(<<1, 3, 4, 4>>), Ones(<<2, 3, 4, 4>>), Zeros(<<2, 3, 4, 4>>),
     Hundredths(Ramp(<<2, 3, 4, 4>>)), Zeros(<<2, 3, 2, 2>>), Zeros(<<1, 3, 3, 3>>),
     Zeros(<<3, 4, 4>>)}

\* proraw_rgb48, anchor_render, gain_map, cfa_pattern, channel_scale, ccm and
\* tone_curve: the defaults, the values of test_analysis.py, and values the
\* renders reject.
AnalysisOptions(shape) ==
    {<<None, None, None, "rggb", None, None, None>>,
     <<None, None, None, "rggb", Some(VecOf(<<ROne, RInt(2), RInt(4)>>)), None, None>>,
     <<Some(Const(shape, Rat(1, 4))), Some(Const(shape, Rat(3, 4))),
       Some(Hundredths(Ramp(<<shape[1], 1, 4, 4>>))), "rggb", None,
       Some(MatOf(<<<<2, 0, 0>>, <<0, 2, 0>>, <<0, 0, 2>>>>)), Some("square")>>,
     <<Some(Const(shape, Rat(1, 4))), None, Some(Ones(<<shape[1], 3, 2, 2>>)), "bggr", None,
       None, Some("halve")>>,
     <<None, None, Some(Ones(<<3, 2, 2>>)), "rggb", None, None, None>>,
     <<None, Some(Ones(<<3, 2, 2>>)), None, "rggb", None, None, None>>,
     <<None, None, None, "grbg", None, Some(MatOf(<<<<1, 0, 0>>, <<0, 1, 0>>>>)), None>>}

BuildAnalysisArtifacts ==
    /\ call.op = "idle"
    /\ \E anchor_mosaic \in AnalysisAnchors, candidate_rgb48 \in AnalysisFrames,
          baseline_rgb48 \in AnalysisFrames :
          \E o \in AnalysisOptions(<<anchor_mosaic.shape[1], 3, 4, 4>>) :
             /\ call' = [op |-> "build_analysis_artifacts", anchor_mosaic |-> anchor_mosaic,
                         candidate_rgb48 |-> candidate_rgb48,
                         baseline_rgb48 |-> baseline_rgb48, proraw_rgb48 |-> o[1],
                         anchor_render |-> o[2], gain_map |-> o[3], cfa_pattern |-> o[4],
                         channel_scale |-> o[5], ccm |-> o[6], tone_curve |-> o[7]]
             /\ result' = build_analysis_artifacts(anchor_mosaic, candidate_rgb48,
                                                   baseline_rgb48, o[1], o[2], o[3], o[4],
                                                   o[5], o[6], o[7])

NextAnalysis == ComposeLinearPrediction \/ BuildAnalysisArtifacts \/ Return

SpecAnalysis == Init /\ [][NextAnalysis]_vars

(***************************************************************************)
(* Calls of the reporting helpers                                          *)
(***************************************************************************)
\* Comparisons with the metrics of evaluate_sample, with one metric more in
\* the candidate, and with one metric fewer in the candidate or the baseline.
SampleComparisons ==
    {[sample_id |-> "scene_one",
      candidate |-> [psnr |-> RInt(30), ssim |-> Rat(9, 10)],
      baseline |-> [psnr |-> RInt(25), ssim |-> Rat(4, 5)]],
     [sample_id |-> "scene_two",
      candidate |-> [psnr |-> RInt(34), ssim |-> Rat(19, 20)],
      baseline |-> [psnr |-> RInt(28), ssim |-> Rat(7, 10)]],
     [sample_id |-> "scene_three",
      candidate |-> [psnr |-> RInt(20)],
      baseline |-> [psnr |-> RInt(22), ssim |-> Rat(1, 2)]],
     [sample_id |-> "scene_four",
      candidate |-> [psnr |-> RInt(31), halo_l1 |-> Rat(1, 10)],
      baseline |-> [psnr |-> RInt(29)]]}

\* Lists of at most MaxSamples comparisons, the empty one among them.
SampleLists == UNION {[1 .. n -> SampleComparisons] : n \in 0 .. MaxSamples}

\* The qualitative set of test_reporting.py, and none.
QualitativeSets ==
    {None,
     Some(<<[capture_id |-> "scene_one", tags |-> <<"backlit">>],
            [capture_id |-> "scene_two", tags |-> <<"foliage", "backlit">>]>>)}

SummarizeSamples ==
    /\ call.op = "idle"
    /\ \E samples \in SampleLists :
          /\ call' = [op |-> "summarize_samples", samples |-> samples]
          /\ result' = summarize_samples(samples)

GenerateReport ==
    /\ call.op = "idle"
    /\ \E samples \in SampleLists, qualitative_set \in QualitativeSets :
          /\ call' = [op |-> "generate_report", samples |-> samples,
                      qualitative_set |-> qualitative_set]
          /\ result' = generate_report(samples, qualitative_set)

NextReport == SummarizeSamples \/ GenerateReport \/ Return

SpecReport == Init /\ [][NextReport]_vars

Next ==
    NextAnalysis \/ NextBaseline \/ NextEval \/ NextForward \/ NextLoss \/ NextReport \/ NextRisk

Spec == Init /\ [][Next]_vars

(***************************************************************************)
(* Claims about the forward operator and the channel maps (SpecForward).   *)
(***************************************************************************)
ScaleOf(channel_scale) == IF IsNone(channel_scale) THEN Ones3 ELSE channel_scale[1]

\* C1: quad_binner_residual returns 0 for every RGB48 tensor, channel_scale
\* and CFA pattern: the forward operator equals the manual strided binning.
C1_BinnerResidualIsZero ==
    (call.op = "quad_binner_residual" /\ result.status = "ok")
        => result.value = RZero

\* C2: every operation that takes a CFA pattern fails with an error for a
\* pattern outside {rggb, bggr, grbg, gbrg} and returns nothing for it.
C2_InvalidPatternRejected ==
    /\ (call.op \in {"_channel_index_map", "_bayer_channel_map"}
            /\ call.pattern \notin CFAPatterns)
        => result.status = "error"
    /\ (call.op \in {"quad_bayer_forward", "quad_binner_residual"}
            /\ call.cfa_pattern \notin CFAPatterns)
        => result.status = "error"

\* C3: the pixel-parity map at mosaic pixel (i, j) gives the colour the block
\* map gives to each full-resolution pixel (2i..2i+1, 2j..2j+1) binned into it.
C3_ParityMapMatchesBlockMap ==
    (call.op = "_bayer_channel_map" /\ call.pattern \in CFAPatterns)
        => LET block == _channel_index_map(2 * call.height, 2 * call.width,
                                           call.pattern)
           IN  \A i \in 0 .. (call.height - 1), j \in 0 .. (call.width - 1),
                  a \in {0, 1}, b \in {0, 1} :
                  At(result.value, <<i, j>>) = At(block, <<2 * i + a, 2 * j + b>>)

\* The colours c0 c1 c2 c3 a pattern's name spells, 0 = R, 1 = G, 2 = B.
CanonicalLayout(pattern) ==
    CASE pattern = "rggb" -> <<0, 1, 1, 2>>
      [] pattern = "bggr" -> <<2, 1, 1, 0>>
      [] pattern = "grbg" -> <<1, 0, 2, 1>>
      [] pattern = "gbrg" -> <<1, 2, 0, 1>>

\* C4: in the block map of pattern c0c1c2c3 the block with (row parity,
\* column parity) (0,0), (0,1), (1,0), (1,1) has colour c0, c1, c2, c3, with
\* values in {0, 1, 2} and one colour for the four pixels of a block.
C4_BlockMapIsCanonical ==
    (call.op = "_channel_index_map" /\ call.pattern \in CFAPatterns)
        => \A y \in 0 .. (call.height - 1), x \in 0 .. (call.width - 1) :
              /\ At(result.value, <<y, x>>) \in {0, 1, 2}
              /\ At(result.value, <<y, x>>)
                    = CanonicalLayout(call.pattern)[2 * ((y \div 2) % 2)
                                                     + ((x \div 2) % 2) + 1]

\* C5: output pixel (b, 0, i, j) of quad_bayer_forward is the average over rows
\* 2i..2i+1 and columns 2j..2j+1 of channel_scale[c] * rgb48[b, c, y, x], c the
\* colour of the block channel map at (y, x); no channel_scale means (1, 1, 1).
C5_ForwardIsBlockAverage ==
    (call.op = "quad_bayer_forward" /\ result.status = "ok")
        => LET rgb48 == call.rgb48
               scale == ScaleOf(call.channel_scale)
               cmap == _channel_index_map(rgb48.shape[3], rgb48.shape[4],
                                          call.cfa_pattern)
               Term(b, y, x) ==
                   RMul(scale.data[At(cmap, <<y, x>>)],
                        At(rgb48, <<b, At(cmap, <<y, x>>), y, x>>))
           IN  \A b \in 0 .. (rgb48.shape[1] - 1),
                  i \in 0 .. ((rgb48.shape[3] \div 2) - 1),
                  j \in 0 .. ((rgb48.shape[4] \div 2) - 1) :
                  At(result.value, <<b, 0, i, j>>)
                     = RDiv(RAdd(RAdd(Term(b, 2 * i, 2 * j), Term(b, 2 * i, 2 * j + 1)),
                                 RAdd(Term(b, 2 * i + 1, 2 * j),
                                      Term(b, 2 * i + 1, 2 * j + 1))),
                            RInt(4))

\* A scaled, non-default-pattern call whose second mosaic row is not zero.
C5_Witness ==
    /\ call.op = "quad_bayer_forward"
    /\ result.status = "ok"
    /\ call.cfa_pattern = "grbg"
    /\ ~IsNone(call.channel_scale)
    /\ call.rgb48.shape = <<2, 3, 4, 4>>
    /\ At(result.value, <<1, 0, 1, 0>>) = Rat(1, 8)

\* The tensor's channels are spatially constant and scale[c] * value[c] = k.
ScaledPlanesEqual(rgb48, scale, k) ==
    \A i \in Indices(rgb48.shape) : RMul(scale.data[i[2]], At(rgb48, i)) = k

\* C6: when every channel is spatially constant and channel_scale[c] * value[c]
\* is the same k for the three channels, the mosaic is k at every pixel, for
\* every CFA pattern.
C6_ConstantPlanesGiveConstantMosaic ==
    (call.op = "quad_bayer_forward" /\ result.status = "ok")
        => \A k \in {RInt(1), RInt(2), RInt(4)} :
              ScaledPlanesEqual(call.rgb48, ScaleOf(call.channel_scale), k)
                 => \A o \in DOMAIN result.value.data : result.value.data[o] = k

\* R = 1, G = 2, B = 4 with scale (2, 1, 0.5) under bggr: the mosaic is 2.
C6_Witness ==
    /\ call.op = "quad_bayer_forward"
    /\ result.status = "ok"
    /\ call.cfa_pattern = "bggr"
    /\ call.rgb48 = Planes(<<1, 3, 4, 4>>, <<1, 2, 4>>)
    /\ call.channel_scale = Some(VecOf(<<RInt(2), ROne, Rat(1, 2)>>))
    /\ \A o \in DOMAIN result.value.data : result.value.data[o] = RInt(2)

\* C7: quad_bayer_forward fails with a ValueError when the input is not rank 4,
\* has not 3 channels, has odd H or W, or channel_scale is not of shape (3,);
\* otherwise it returns a tensor of shape (B, 1, H/2, W/2).
C7_ShapeValidation ==
    call.op = "quad_bayer_forward"
        => LET shape == call.rgb48.shape
               bad == \/ Len(shape) # 4
                      \/ shape[2] # 3
                      \/ shape[3] % 2 # 0
                      \/ shape[4] % 2 # 0
                      \/ (~IsNone(call.channel_scale)
                            /\ call.channel_scale[1].shape # <<3>>)
           IN  IF bad
               THEN result.status = "error" /\ result.kind = "ValueError"
               ELSE /\ result.status = "ok"
                    /\ result.value.shape
                          = <<shape[1], 1, shape[3] \div 2, shape[4] \div 2>>

\* A well-shaped RGB48 tensor rejected for its channel_scale alone.
C7_Witness ==
    /\ call.op = "quad_bayer_forward"
    /\ call.rgb48.shape = <<1, 3, 4, 2>>
    /\ call.channel_scale = Some(View(VecOf(<<ROne, ROne, ROne>>), <<3, 1>>))
    /\ result.status = "error"

(***************************************************************************)
(* Claims about the losses (SpecLoss).                                     *)
(***************************************************************************)
\* The render the claim describes: channel i of the output is the sum over j
\* of ccm[i][j] * channel j of the input, then the tone curve.
MatrixRender(rgb, ccm, tone_curve) ==
    LET m == IF IsNone(ccm) THEN Eye3 ELSE ccm[1]
        T(i, j) == RMul(At(m, <<i[2], j>>), At(rgb, <<i[1], j, i[3], i[4]>>))
        Px(i) == RAdd(RAdd(T(i, 0), T(i, 1)), T(i, 2))
    IN  MkTensor(rgb.shape,
                 LAMBDA i : IF IsNone(tone_curve) THEN Px(i)
                            ELSE ToneCurve(tone_curve[1], Px(i)))

\* C8: the global render applies the CCM as a 3x3 matrix over the channel axis
\* (so the identity CCM without tone curve leaves the image unchanged), and
\* gradient_detail_loss is mean|dx(pred) - dx(ref)| + mean|dy(pred) - dy(ref)|
\* of the images rendered that way.
C8_RenderAppliesCcmOverChannels ==
    /\ (call.op = "_apply_global_render" /\ result.status = "ok")
        => result.value = MatrixRender(call.rgb, call.ccm, call.tone_curve)
    /\ (call.op = "gradient_detail_loss" /\ result.status = "ok")
        => LET p == MatrixRender(call.pred_rgb48, call.ccm, call.tone_curve)
               r == MatrixRender(call.reference_rgb48, call.ccm, call.tone_curve)
           IN  result.value = RAdd(MeanAbsDiff(GradX(p), GradX(r)),
                                   MeanAbsDiff(GradY(p), GradY(r)))

(***************************************************************************)
(* Claims about the risk guards (SpecRisk).                                *)
(***************************************************************************)
\* The two mosaics of a call as detect_misalignment compares them.
Anchor4d == risk_ensure_image_4d(call.anchor_mosaic).value
Simulated4d == risk_ensure_image_4d(call.simulated_mosaic).value

\* C9: for a simulated mosaic identical to the anchor, detect_misalignment
\* returns is_aligned = True, whatever the anchor holds.
C9_IdenticalPairIsAligned ==
    (call.op = "detect_misalignment" /\ result.status = "ok"
        /\ Simulated4d = Anchor4d)
        => result.value.is_aligned

\* The simulated mosaic is the anchor rolled by (sy, sx), a nonzero shift
\* inside the search window, and the result names the shift that undoes it.
ShiftFound(sy, sx) ==
    /\ ~result.value.is_aligned
    /\ result.value.best_shift = <<-sy, -sx>>
    /\ PsnrGt(result.value.best_psnr, result.value.reference_psnr)

NonzeroShifts(max_shift) == Window(max_shift) \ {<<0, 0>>}

\* C10 as stated: for every anchor, a simulated mosaic that is the anchor
\* rolled by a nonzero (sy, sx) within max_shift gives is_aligned = False,
\* best_shift = (-sy, -sx) and best_psnr > reference_psnr.
C10_ShiftDetectedForAnyAnchor ==
    (call.op = "detect_misalignment" /\ result.status = "ok")
        => \A s \in NonzeroShifts(call.max_shift) :
              Simulated4d = Roll(Anchor4d, s[1], s[2]) => ShiftFound(s[1], s[2])

\* No roll by (a, b) # (0, 0) with |a|, |b| <= reach maps the image to itself.
NoSelfSimilarity(image, reach) ==
    \A r \in Window(reach) \ {<<0, 0>>} : Roll(image, r[1], r[2]) # image

\* C10, amended: the same, for an anchor that differs from each of its own
\* rolls by (a, b) # (0, 0) with |a|, |b| <= 2 * max_shift.
C10_ShiftDetected ==
    (call.op = "detect_misalignment" /\ result.status = "ok")
        => \A s \in NonzeroShifts(call.max_shift) :
              (Simulated4d = Roll(Anchor4d, s[1], s[2])
                  /\ NoSelfSimilarity(Anchor4d, 2 * call.max_shift))
                 => ShiftFound(s[1], s[2])

\* The shift of test_risk.py, (1, 0), on a 5x5 anchor with one lit pixel and
\* the default search radius: found as (-1, 0).
C10_Witness ==
    /\ call.op = "detect_misalignment"
    /\ result.status = "ok"
    /\ call.max_shift = DefaultMaxShift
    /\ call.anchor_mosaic.shape = <<1, 1, 5, 5>>
    /\ NoSelfSimilarity(call.anchor_mosaic, 2 * call.max_shift)
    /\ call.simulated_mosaic = Roll(call.anchor_mosaic, 1, 0)
    /\ result.value.best_shift = <<-1, 0>>
    /\ ~result.value.is_aligned

\* C11: in every result of detect_misalignment, is_aligned is true exactly
\* when best_shift = (0, 0) and reference_psnr >= psnr_threshold, and whenever
\* is_aligned is true best_psnr equals reference_psnr.
C11_AlignedFlagContract ==
    (call.op = "detect_misalignment" /\ result.status = "ok") =>
        /\ result.value.is_aligned <=>
              (result.value.best_shift = <<0, 0>>
                 /\ PsnrGeDb(result.value.reference_psnr, call.psnr_threshold))
        /\ result.value.is_aligned =>
              result.value.best_psnr = result.value.reference_psnr

\* The two images of a psnr call as (B, C, H, W) tensors.
PsnrPred == _ensure_image_4d(call.pred).value
PsnrTarget == _ensure_image_4d(call.target).value
PsnrCallIsValid ==
    /\ call.op = "psnr"
    /\ Ndim(call.pred) \in {3, 4} /\ Ndim(call.target) \in {3, 4}
    /\ PsnrPred.shape = PsnrTarget.shape

\* C12: psnr returns +infinity, not an error, whenever the MSE is zero, so
\* psnr(x, x) = +infinity; for a nonzero MSE it returns
\* 10 * log10(max_val^2 / MSE), which strictly decreases as the MSE increases.
C12_PsnrInfinityAndMonotone ==
    PsnrCallIsValid =>
        LET mse == mse_loss(PsnrPred, PsnrTarget)
        IN  /\ result.status = "ok"
            /\ (call.pred = call.target) => result.value = PsnrInf
            /\ (mse = RZero) => result.value = PsnrInf
            /\ (mse # RZero) =>
                  /\ result.value =
                        PsnrOf(RDiv(RMul(call.max_val, call.max_val), mse))
                  /\ \A other \in EvalTargets(PsnrPred) :
                        (other.shape = PsnrPred.shape
                            /\ RLt(mse, mse_loss(PsnrPred, other))) =>
                           PsnrGt(result.value,
                                  psnr(PsnrPred, other, call.max_val).value)

\* A nonzero image compared with itself.
C12_Witness ==
    /\ PsnrCallIsValid
    /\ call.pred = call.target
    /\ call.pred # Zeros(call.pred.shape)
    /\ result = Ok(PsnrInf)

\* C13: psnr between an image and the image plus a uniform offset of 0.5
\* (max_val = 1, MSE = 0.25) is below 5 dB.
C13_HalfOffsetBelow5dB ==
    (PsnrCallIsValid /\ call.max_val = ROne
        /\ PsnrTarget = Offset(PsnrPred, Rat(1, 2))) =>
        /\ result.status = "ok"
        /\ ~PsnrGeDb(result.value, 5)

\* The arguments of a Baseline A call left at their defaults.
GlobalDelTmDefaults ==
    /\ call.op = "global_del_tm_baseline"
    /\ call.cfa_pattern = "rggb" /\ IsNone(call.inverse_tone_curve)
    /\ IsNone(call.channel_scale) /\ call.gain_percentile = Rat(1, 2)
    /\ call.min_gain = Rat(1, 4) /\ call.max_gain = RInt(4)
    /\ call.eps = DefaultEps

AllElements(t, P(_)) == \A k \in DOMAIN t.data : P(t.data[k])

\* C14: Baseline A with constant proraw = 0.5, constant anchor = 1.0 and
\* default parameters returns gain exactly 2.0, a corrected mosaic exactly
\* equal to the anchor, a corrected rgb48 of 1.0 everywhere, and a
\* non-negative output.
C14_ConstantHalfGivesGainTwo ==
    (GlobalDelTmDefaults
        /\ call.proraw_rgb48 = Const(call.proraw_rgb48.shape, Rat(1, 2))
        /\ call.anchor_mosaic = Const(call.anchor_mosaic.shape, ROne)
        /\ _validate_shapes(call.proraw_rgb48, call.anchor_mosaic).status = "ok"
        /\ call.anchor_mosaic.shape[3] * 2 = call.proraw_rgb48.shape[3]
        /\ call.anchor_mosaic.shape[4] * 2 = call.proraw_rgb48.shape[4]) =>
        /\ result.status = "ok"
        /\ AllElements(result.value.gain, LAMBDA g : g = RInt(2))
        /\ result.value.mosaic = call.anchor_mosaic
        /\ result.value.rgb48 = Const(call.proraw_rgb48.shape, ROne)
        /\ AllElements(result.value.rgb48, LAMBDA v : RLe(RZero, v))

\* The ratios of a Baseline A call, and the values of batch element b of them.
CallRatios ==
    Computed(Ratios(call.anchor_mosaic,
                    quad_bayer_forward(Linearize(call.proraw_rgb48,
                                                 call.inverse_tone_curve),
                                       call.cfa_pattern, call.channel_scale).value,
                    call.eps))
RowLen == Numel(call.anchor_mosaic.shape) \div call.anchor_mosaic.shape[1]
RatioRow(ratios, b) == [j \in 0 .. (RowLen - 1) |-> ratios.data[b * RowLen + j]]

\* C15: each per-batch gain of Baseline A lies in [min_gain, max_gain]; it is
\* max_gain when the selected percentile of the ratios exceeds max_gain and
\* min_gain when it is below min_gain; the returned rgb48 is non-negative and
\* the returned mosaic is quad_bayer_forward of the returned rgb48.
C15_GainClampedAndReprojected ==
    (call.op = "global_del_tm_baseline" /\ result.status = "ok") =>
        LET ratios == CallRatios
        IN  /\ result.value.gain.shape = <<call.proraw_rgb48.shape[1]>>
            /\ \A b \in DOMAIN result.value.gain.data :
                  LET gain == result.value.gain.data[b]
                      row == RatioRow(ratios, b)
                      selected == Quantile(row, RowLen, call.gain_percentile)
                  IN  /\ RLe(call.min_gain, gain) /\ RLe(gain, call.max_gain)
                      /\ RLt(call.max_gain, selected) => gain = call.max_gain
                      /\ RLt(selected, call.min_gain) => gain = call.min_gain
                      /\ (\A j \in DOMAIN row : RLt(call.max_gain, row[j]))
                            => gain = call.max_gain
                      /\ (\A j \in DOMAIN row : RLt(row[j], call.min_gain))
                            => gain = call.min_gain
            /\ AllElements(result.value.rgb48, LAMBDA v : RLe(RZero, v))
            /\ result.value.mosaic =
                  quad_bayer_forward(result.value.rgb48, call.cfa_pattern,
                                     call.channel_scale).value

\* The ratios [1, 8, 8, 8] of test_baselines.py: the 75th percentile is above
\* max_gain = 6 and the gain is 6.
C15_Witness ==
    /\ call.op = "global_del_tm_baseline" /\ result.status = "ok"
    /\ call.proraw_rgb48 = Const(<<1, 3, 4, 4>>, ROne)
    /\ call.anchor_mosaic = TwoLevel(<<1, 1, 2, 2>>, 0, 0, ROne, RInt(8))
    /\ call.gain_percentile = Rat(3, 4) /\ call.max_gain = RInt(6)
    /\ RLt(call.max_gain,
           Quantile(RatioRow(CallRatios, 0), RowLen, call.gain_percentile))
    /\ result.value.gain.data[0] = RInt(6)

\* C16: Baseline A with an all-ones 1x3x4x4 proraw, anchor [[1,8],[8,8]],
\* gain_percentile 0.75, min_gain 0.5 and max_gain 6.0 returns gain 6.0 and a
\* re-projected mosaic whose mean is 6.75.
C16_ClampedGainMosaicMean ==
    (call.op = "global_del_tm_baseline"
        /\ call.proraw_rgb48 = Const(<<1, 3, 4, 4>>, ROne)
        /\ call.anchor_mosaic = TwoLevel(<<1, 1, 2, 2>>, 0, 0, ROne, RInt(8))
        /\ call.cfa_pattern = "rggb" /\ IsNone(call.inverse_tone_curve)
        /\ IsNone(call.channel_scale) /\ call.eps = DefaultEps
        /\ call.gain_percentile = Rat(3, 4)
        /\ call.min_gain = Rat(1, 2) /\ call.max_gain = RInt(6)) =>
        /\ result.status = "ok"
        /\ result.value.gain = VecOf(<<RInt(6)>>)
        /\ MeanAll(result.value.mosaic) = Rat(27, 4)

\* C17: the gain field returned and applied by Baseline B has the shape of
\* the RGB input and every element within [min_gain, max_gain], for every
\* input, every odd smoothing_kernel and every image size, border included.
C17_GainFieldWithinRange ==
    (call.op = "gain_field_baseline" /\ call.smoothing_kernel % 2 = 1
        /\ result.status = "ok") =>
        /\ result.value.gain.shape = call.proraw_rgb48.shape
        /\ AllElements(result.value.gain,
                       LAMBDA g : RLe(call.min_gain, g) /\ RLe(g, call.max_gain))

\* The gain field of the same call without smoothing (smoothing_kernel = 1).
UnsmoothedGain ==
    gain_field_baseline(call.proraw_rgb48, call.anchor_mosaic, call.cfa_pattern,
                        call.channel_scale, 1, call.min_gain, call.max_gain,
                        call.eps).value.gain

IsConstant(t) == \A k \in DOMAIN t.data : t.data[k] = t.data[0]

\* C18: Baseline B's box smoothing is a same-size average: it leaves a
\* spatially constant gain field unchanged at every pixel and does not lower
\* the mean of the gain field, and so for a constant proraw and a constant
\* anchor whose ratio to the simulated mosaic lies inside [min_gain, max_gain]
\* the re-projected mosaic reproduces the anchor within 1e-2.
C18_SmoothingIsSameSizeAverage ==
    (call.op = "gain_field_baseline" /\ call.smoothing_kernel % 2 = 1
        /\ call.smoothing_kernel > 1 /\ result.status = "ok") =>
        /\ IsConstant(UnsmoothedGain) => result.value.gain = UnsmoothedGain
        /\ RLe(MeanAll(UnsmoothedGain), MeanAll(result.value.gain))
        /\ (/\ IsConstant(call.proraw_rgb48) /\ IsConstant(call.anchor_mosaic)
            /\ IsNone(call.channel_scale)
            /\ LET ratio == RDiv(call.anchor_mosaic.data[0],
                                 RAdd(call.proraw_rgb48.data[0], call.eps))
               IN  RLe(call.min_gain, ratio) /\ RLe(ratio, call.max_gain))
           => \A k \in DOMAIN call.anchor_mosaic.data :
                 RLe(RAbs(RSub(result.value.mosaic.data[k], call.anchor_mosaic.data[k])),
                     Rat(1, 100))

\* C20: anchor_charbonnier_loss fails with an error whenever target_mosaic's
\* shape differs from the shape of quad_bayer_forward(pred_rgb48), shapes
\* that would broadcast included; it never returns a loss computed from a
\* broadcast mismatch.
C20_TargetShapeIsPrecondition ==
    call.op = "anchor_charbonnier_loss" =>
        LET predicted == quad_bayer_forward(call.pred_rgb48, call.cfa_pattern,
                                            call.channel_scale)
        IN  /\ (predicted.status = "ok"
                   /\ call.target_mosaic.shape # predicted.value.shape) =>
                  result.status = "error"
            /\ result.status = "ok" =>
                  /\ call.target_mosaic.shape = predicted.value.shape
                  /\ result.value =
                        charbonnier_loss(predicted.value, call.target_mosaic, call.eps)

\* A (1, 1, 1, 1) target against a larger mosaic is refused.
C20_Witness ==
    /\ call.op = "anchor_charbonnier_loss"
    /\ call.target_mosaic.shape = <<1, 1, 1, 1>>
    /\ call.pred_rgb48.shape = <<1, 3, 2, 4>>
    /\ IsNone(call.channel_scale)
    /\ result = ValueError("target_mosaic must match forward operator output shape")

\* The shapes of a baseline call fail one of the stated conditions.
BaselineShapesAreBad ==
    LET p == call.proraw_rgb48.shape
        a == call.anchor_mosaic.shape
    IN  \/ Len(p) # 4
        \/ p[2] # 3
        \/ Len(a) # 4
        \/ a[2] # 1
        \/ p[3] % 2 # 0 \/ p[4] % 2 # 0
        \/ a[1] # p[1]
        \/ a[3] # p[3] \div 2 \/ a[4] # p[4] \div 2

\* C19: both baselines fail with a shape-validation error and return no
\* output whenever the RGB input is not (B,3,H,W), the anchor is not
\* (B,1,h,w), H or W is odd, the batch sizes differ, or the anchor's spatial
\* size is not (H/2, W/2).
C19_BaselinesValidateShapes ==
    (call.op \in {"global_del_tm_baseline", "gain_field_baseline"}
        /\ BaselineShapesAreBad) =>
        /\ result.status = "error"
        /\ result.kind = "ValueError"

\* An anchor column that would broadcast against the projected mosaic is
\* refused by Baseline A.
C19_Witness ==
    /\ call.op = "global_del_tm_baseline"
    /\ call.proraw_rgb48.shape = <<1, 3, 4, 4>>
    /\ call.anchor_mosaic.shape = <<1, 1, 2, 1>>
    /\ result = ValueError("anchor_mosaic must match forward-projected shape")

\* The forward projection of the prediction of an anchor_charbonnier_loss call.
PredictedMosaic ==
    quad_bayer_forward(call.pred_rgb48, call.cfa_pattern, call.channel_scale)

\* The radicand d^2 + eps^2 of a uniform offset d.
OffsetRadicand(d, eps) == RAdd(RMul(d, d), RMul(eps, eps))

\* C21: for a target that differs from the forward-projected prediction by a
\* uniform offset d, anchor_charbonnier_loss equals sqrt(d^2 + eps^2), and the
\* loss strictly increases as |d| increases (its minimum, at d = 0, is eps).
\* A mean of equal square roots is that square root, and square roots are
\* ordered as their radicands.
C21_CharbonnierOfUniformOffset ==
    (call.op = "anchor_charbonnier_loss" /\ PredictedMosaic.status = "ok") =>
        \A d \in MosaicOffsets :
            call.target_mosaic = Offset(PredictedMosaic.value, d) =>
                /\ result.status = "ok"
                /\ result.value.kind = "mean_sqrt"
                /\ \A k \in DOMAIN result.value.radicands :
                      result.value.radicands[k] = OffsetRadicand(d, call.eps)
                /\ d = RZero => result.value.radicands[0] = RMul(call.eps, call.eps)
                /\ \A other \in MosaicOffsets :
                      LET loss == anchor_charbonnier_loss(
                                      call.pred_rgb48,
                                      Offset(PredictedMosaic.value, other),
                                      call.cfa_pattern, call.channel_scale,
                                      call.eps).value
                      IN  RLt(RAbs(d), RAbs(other)) =>
                             \A k \in DOMAIN loss.radicands :
                                RLt(result.value.radicands[k], loss.radicands[k])

\* The offset of test_losses.py, 0.1, on a frame of ones.
C21_Witness ==
    /\ call.op = "anchor_charbonnier_loss"
    /\ call.pred_rgb48 = Ones(<<1, 3, 4, 4>>)
    /\ call.target_mosaic = Offset(PredictedMosaic.value, Rat(1, 10))
    /\ result.status = "ok"
    /\ result.value.radicands[0] = OffsetRadicand(Rat(1, 10), call.eps)

\* C25: gain_regularization returns total = smoothness_weight * smoothness +
\* range_penalty with the two components, where smoothness = mean|dx| +
\* mean|dy| of the gain map and range_penalty = mean of max(min_gain - g, 0) +
\* max(g - max_gain, 0); range_penalty is never negative and is zero exactly
\* when every gain value lies in [min_gain, max_gain].
C25_GainRegularizationTotal ==
    (call.op = "gain_regularization" /\ Ndim(call.gain_map) = 4) =>
        /\ result.status = "ok"
        /\ DOMAIN result.value.components = {"smoothness", "range"}
        /\ result.value.total =
              RAdd(RMul(call.smoothness_weight, result.value.components.smoothness),
                   result.value.components.range)
        /\ result.value.components.smoothness =
              RAdd(MeanAbs(GradX(call.gain_map)), MeanAbs(GradY(call.gain_map)))
        /\ result.value.components.range =
              RangePenalty(call.gain_map, call.min_gain, call.max_gain)
        /\ RLe(RZero, result.value.components.range)
        /\ result.value.components.range = RZero <=>
              \A k \in DOMAIN call.gain_map.data :
                  /\ RLe(call.min_gain, call.gain_map.data[k])
                  /\ RLe(call.gain_map.data[k], call.max_gain)

\* The gain map of test_losses.py with a weight other than 1: both a
\* smoothness and a range penalty.
C25_Witness ==
    /\ call.op = "gain_regularization"
    /\ call.gain_map = TiledGain(<<1, 3, 2, 2>>)
    /\ call.smoothness_weight = RInt(2)
    /\ result.status = "ok"
    /\ RLt(RZero, result.value.components.range)
    /\ RLt(RZero, result.value.components.smoothness)

\* The mosaic of test_risk.py: R = 0.5, G = 1.0, B = 0.8 on a 4x4 RGGB frame.
NeutralTestMosaic == RoleMosaic(<<1, 1, 4, 4>>, "rggb", <<Rat(1, 2), ROne, Rat(4, 5)>>)

\* (g + eps) / (x + eps): the neutral of a role of constant value x against
\* a green of constant value g.
NeutralOf(g, x, eps) == RDiv(RAdd(g, eps), RAdd(x, eps))

\* C22: for a mosaic holding constant values r, g, b on the roles of the
\* pixel-parity map, estimate_white_balance_neutral returns (g/r, 1, g/b) per
\* batch element up to the epsilon term, i.e. ((g + eps)/(r + eps), 1,
\* (g + eps)/(b + eps)); R = 0.5, G = 1.0, B = 0.8 gives (2.0, 1.0, 1.25)
\* within 1e-3; the green component of every returned vector is exactly 1.
C22_NeutralOfConstantRoles ==
    (call.op = "estimate_white_balance_neutral" /\ result.status = "ok") =>
        /\ Len(result.value.shape) = 2 /\ result.value.shape[2] = 3
        /\ Len(call.mosaic.shape) = 4 => result.value.shape[1] = call.mosaic.shape[1]
        /\ \A n \in 0 .. (result.value.shape[1] - 1) : At(result.value, <<n, 1>>) = ROne
        /\ \A rgb \in RoleValues :
              (/\ Len(call.mosaic.shape) = 4
               /\ call.mosaic = RoleMosaic(call.mosaic.shape, call.cfa_pattern, rgb)) =>
                 \A n \in 0 .. (call.mosaic.shape[1] - 1), c \in 0 .. 2 :
                    LET scale == RInt(n + 1)
                        value == At(result.value, <<n, c>>)
                        ideal == RDiv(rgb[2], rgb[c + 1])
                    IN  /\ value = NeutralOf(RMul(scale, rgb[2]), RMul(scale, rgb[c + 1]),
                                             call.eps)
                        /\ RLe(RAbs(RSub(value, ideal)),
                               RDiv(RMul(call.eps, RAbs(RSub(rgb[2], rgb[c + 1]))),
                                    RMul(rgb[c + 1], rgb[c + 1])))
        /\ (call.mosaic = NeutralTestMosaic /\ call.cfa_pattern = "rggb"
                /\ call.eps = WhiteBalanceEps) =>
              /\ RLe(RAbs(RSub(At(result.value, <<0, 0>>), RInt(2))), Rat(1, 1000))
              /\ RLe(RAbs(RSub(At(result.value, <<0, 2>>), Rat(5, 4))), Rat(1, 1000))

\* The frame of test_risk.py: the red neutral is close to, and not exactly, 2.
C22_Witness ==
    /\ call.op = "estimate_white_balance_neutral"
    /\ call.mosaic = NeutralTestMosaic
    /\ call.cfa_pattern = "rggb"
    /\ call.eps = WhiteBalanceEps
    /\ result.status = "ok"
    /\ At(result.value, <<0, 1>>) = ROne
    /\ At(result.value, <<0, 0>>) # RInt(2)
    /\ RLe(RAbs(RSub(At(result.value, <<0, 0>>), RInt(2))), Rat(1, 1000))

\* The target vector multiplied by k.
ScaledTarget(target, k) ==
    [shape |-> target.shape, data |-> [i \in DOMAIN target.data |-> RMul(k, target.data[i])]]

\* C23: white_balance_consistency returns True exactly when, for every batch
\* element and channel, |estimated - green-normalised target| <= tolerance,
\* and returns that deviation with the estimate; the verdict does not change
\* when the target is multiplied by a nonzero constant; for the R = 0.5,
\* G = 1.0, B = 0.8 mosaic at tolerance 0.01 the true neutral is accepted and
\* (1, 1, 1) is rejected.
C23_ConsistencyVerdict ==
    (call.op = "white_balance_consistency" /\ result.status = "ok") =>
        LET estimated ==
                estimate_white_balance_neutral(call.mosaic, call.cfa_pattern,
                                               WhiteBalanceEps).value
            target(c) == RDiv(call.target_neutral.data[c], call.target_neutral.data[1])
            cells == (0 .. (estimated.shape[1] - 1)) \X (0 .. 2)
        IN  /\ result.value.estimated = estimated
            /\ result.value.deviation.shape = estimated.shape
            /\ \A i \in cells :
                  At(result.value.deviation, i) = RAbs(RSub(At(estimated, i), target(i[2])))
            /\ result.value.within_tolerance <=>
                  \A i \in cells :
                     RLe(RAbs(RSub(At(estimated, i), target(i[2]))), call.tolerance)
            /\ \A k \in {RInt(2), RInt(-1), Rat(1, 2)} :
                  white_balance_consistency(call.mosaic, ScaledTarget(call.target_neutral, k),
                                            call.cfa_pattern,
                                            call.tolerance).value.within_tolerance
                     = result.value.within_tolerance
            /\ (call.mosaic = NeutralTestMosaic /\ call.cfa_pattern = "rggb"
                    /\ call.tolerance = Rat(1, 100)) =>
                  /\ call.target_neutral.data = VecOf(<<RInt(2), ROne, Rat(5, 4)>>).data
                        => result.value.within_tolerance
                  /\ call.target_neutral.data = VecOf(<<ROne, ROne, ROne>>).data
                        => ~result.value.within_tolerance

\* A target given as a multiple, (4, 2, 2.5), of the true neutral is accepted.
C23_Witness ==
    /\ call.op = "white_balance_consistency"
    /\ call.mosaic = NeutralTestMosaic
    /\ call.cfa_pattern = "rggb"
    /\ call.tolerance = Rat(1, 100)
    /\ call.target_neutral = VecOf(<<RInt(4), RInt(2), Rat(5, 2)>>)
    /\ result.status = "ok"
    /\ result.value.within_tolerance
    /\ At(result.value.deviation, <<0, 0>>) # RZero

\* The PSNR of the simulated mosaic rolled by shift, against the anchor.
ShiftScore(shift) == psnr(Roll(Simulated4d, shift[1], shift[2]), Anchor4d, ROne).value

\* C30: detect_misalignment scores the (2 * max_shift + 1)^2 shifts of the
\* window; best_psnr is the maximum PSNR over them, best_shift lies in the
\* window and attains best_psnr, so best_psnr >= reference_psnr in every
\* result; among the shifts that attain the maximum the first in scan order
\* is reported.
C30_SearchIsExhaustive ==
    (call.op = "detect_misalignment" /\ result.status = "ok") =>
        LET order == ScanOrder(call.max_shift)
            side == 2 * call.max_shift + 1
        IN  /\ Len(order) = side * side
            /\ {order[k] : k \in 1 .. Len(order)} = Window(call.max_shift)
            /\ result.value.best_shift \in Window(call.max_shift)
            /\ ShiftScore(result.value.best_shift) = result.value.best_psnr
            /\ \A s \in Window(call.max_shift) :
                  ~PsnrGt(ShiftScore(s), result.value.best_psnr)
            /\ ~PsnrGt(result.value.reference_psnr, result.value.best_psnr)
            /\ \A k \in 1 .. Len(order) :
                  ShiftScore(order[k]) = result.value.best_psnr =>
                     \E j \in 1 .. k : order[j] = result.value.best_shift

(***************************************************************************)
(* Claims about the composition and analysis helpers (SpecAnalysis).       *)
(***************************************************************************)
\* The gain of a compose_linear_prediction call at full resolution.
GainUp == InterpolateBilinear(call.gain, call.pro_raw48.shape[3], call.pro_raw48.shape[4])

\* C24: compose_linear_prediction returns max(0, pro_raw48 * upsampled gain +
\* detail) elementwise with the shape of pro_raw48, every element
\* non-negative; it fails with an error when a tensor is not 4D, when
\* pro_raw48 and detail differ in shape, or when pro_raw48 or gain does not
\* have 3 channels.
C24_ComposedPrediction ==
    call.op = "compose_linear_prediction" =>
        /\ (\/ Ndim(call.pro_raw48) # 4 \/ Ndim(call.gain) # 4 \/ Ndim(call.detail) # 4
            \/ call.pro_raw48.shape # call.detail.shape
            \/ call.pro_raw48.shape[2] # 3
            \/ call.gain.shape[2] # 3) => result.status = "error"
        /\ result.status = "ok" =>
              /\ result.value.shape = call.pro_raw48.shape
              /\ \A i \in Indices(call.pro_raw48.shape) :
                    /\ At(result.value, i) =
                          RMax(RZero,
                               RAdd(RMul(At(call.pro_raw48, i),
                                         At(GainUp, <<i[1] % call.gain.shape[1], i[2], i[3],
                                                      i[4]>>)),
                                    At(call.detail, i)))
                    /\ RLe(RZero, At(result.value, i))

(***************************************************************************)
(* Claims about the error histograms (SpecEval).                           *)
(***************************************************************************)
\* The pixels of the residual of a per_cfa_error_histogram call whose role
\* in the pixel-parity map is idx and whose value lies in bin k of num_bins
\* bins of equal width over value_range, the upper end in the last bin.
PixelsInBin(idx, k) ==
    LET lo == call.value_range[1]
        hi == call.value_range[2]
        width == RDiv(RSub(hi, lo), RInt(call.num_bins))
    IN  {i \in Indices(call.residual_mosaic.shape) :
            LET v == At(call.residual_mosaic, i)
            IN  /\ BayerChannelAt(i[3], i[4], call.cfa_pattern) = idx
                /\ RLe(RAdd(lo, RMul(RInt(k), width)), v)
                /\ \/ RLt(v, RAdd(lo, RMul(RInt(k + 1), width)))
                   \/ k = call.num_bins - 1 /\ v = hi}

RECURSIVE SumCounts(_, _)
SumCounts(hist, n) == IF n = 0 THEN 0 ELSE hist.data[n - 1] + SumCounts(hist, n - 1)

\* C27: per_cfa_error_histogram partitions the pixels of the residual mosaic
\* by their role in the pixel-parity map: a pixel whose value lies inside
\* value_range is counted in exactly one bin of the histogram of its role and
\* in no other histogram, so the totals of the three histograms sum to the
\* number of in-range pixels; each histogram has num_bins entries, and a
\* colour without pixels has an all-zero histogram.
C27_HistogramPartitionsByRole ==
    (/\ call.op = "per_cfa_error_histogram"
     /\ Ndim(call.residual_mosaic) = 4
     /\ call.residual_mosaic.shape[2] = 1
     /\ call.residual_mosaic.shape[3] % 2 = 0 /\ call.residual_mosaic.shape[4] % 2 = 0
     /\ RLt(call.value_range[1], call.value_range[2])) =>
        /\ result.status = "ok"
        /\ LET hist == <<result.value.r, result.value.g, result.value.b>>
           IN  /\ \A idx \in 0 .. 2 :
                     /\ hist[idx + 1].shape = <<call.num_bins>>
                     /\ \A k \in 0 .. (call.num_bins - 1) :
                           hist[idx + 1].data[k] = Cardinality(PixelsInBin(idx, k))
               /\ SumCounts(hist[1], call.num_bins) + SumCounts(hist[2], call.num_bins)
                     + SumCounts(hist[3], call.num_bins)
                  = Cardinality({i \in Indices(call.residual_mosaic.shape) :
                                    /\ RLe(call.value_range[1], At(call.residual_mosaic, i))
                                    /\ RLe(At(call.residual_mosaic, i),
                                           call.value_range[2])})

\* The tensors of the artifacts of a build_analysis_artifacts call.
ArtifactTensors ==
    {result.value.mosaics[k] : k \in DOMAIN result.value.mosaics}
        \cup {result.value.residuals[k] : k \in DOMAIN result.value.residuals}
        \cup {result.value.renders[k] : k \in DOMAIN result.value.renders}

\* C26: every tensor of the AnalysisArtifacts build_analysis_artifacts
\* returns (mosaics, residuals, renders) occupies storage the call allocated,
\* not the storage of anchor_mosaic or of another argument.
C26_ArtifactsAreFresh ==
    (call.op = "build_analysis_artifacts" /\ result.status = "ok") =>
        \A t \in ArtifactTensors : t.storage = "fresh"

\* The forward projection of the candidate and of the baseline of a
\* build_analysis_artifacts call.
CandidateMosaic == quad_bayer_forward(call.candidate_rgb48, call.cfa_pattern, call.channel_scale)
BaselineMosaic == quad_bayer_forward(call.baseline_rgb48, call.cfa_pattern, call.channel_scale)

\* C29: build_analysis_artifacts fails with an error whenever the forward
\* projection of the candidate or of the baseline has a shape other than
\* that of anchor_mosaic; it returns no residual computed by broadcasting.
C29_MismatchedMosaicsFail ==
    (/\ call.op = "build_analysis_artifacts"
     /\ CandidateMosaic.status = "ok" /\ BaselineMosaic.status = "ok"
     /\ \/ CandidateMosaic.value.shape # call.anchor_mosaic.shape
        \/ BaselineMosaic.value.shape # call.anchor_mosaic.shape)
        => result.status = "error"

(***************************************************************************)
(* Claims about the reports (SpecReport).                                  *)
(***************************************************************************)
\* The summary of a summarize_samples or generate_report call.
Summary == IF call.op = "generate_report" THEN result.value.summary ELSE result.value

\* The metrics every sample of the call holds in both of its dictionaries.
SharedMetrics ==
    {name \in {"psnr", "ssim", "halo_l1"} :
        \A n \in 1 .. Len(call.samples) :
           name \in (DOMAIN call.samples[n].candidate) \cap (DOMAIN call.samples[n].baseline)}

\* C28: summarize_samples, and generate_report through it, fails with an
\* error when given no samples and returns no default summary; for a
\* non-empty list, the summary of a metric that every sample holds in its
\* candidate and its baseline dictionary has delta = candidate mean -
\* baseline mean, the means taken over all samples.
C28_SummaryOfSamples ==
    call.op \in {"summarize_samples", "generate_report"} =>
        /\ call.samples = <<>> => result.status = "error" /\ result.kind = "ValueError"
        /\ call.samples # <<>> =>
              /\ result.status = "ok"
              /\ \A name \in SharedMetrics :
                    /\ name \in DOMAIN Summary
                    /\ Summary[name].candidate =
                          RDiv(SumSeq([n \in 1 .. Len(call.samples) |->
                                          call.samples[n].candidate[name]]),
                               RInt(Len(call.samples)))
                    /\ Summary[name].baseline =
                          RDiv(SumSeq([n \in 1 .. Len(call.samples) |->
                                          call.samples[n].baseline[name]]),
                               RInt(Len(call.samples)))
                    /\ Summary[name].delta =
                          RSub(Summary[name].candidate, Summary[name].baseline)

\* A report over two samples: the PSNR means are 32 and 26.5, the delta 5.5.
C28_Witness ==
    /\ call.op = "generate_report"
    /\ Len(call.samples) = 2
    /\ call.samples[1].sample_id = "scene_one" /\ call.samples[2].sample_id = "scene_two"
    /\ result.status = "ok"
    /\ result.value.summary["psnr"].delta = Rat(11, 2)

====
